---------------------------- MODULE Spec2Model ----------------------------
(***************************************************************************)
(* Concurrent download orchestration core of yt-video-downloader-system.   *)
(*                                                                         *)
(* Three state machines share this module:                                 *)
(*   RetrySpec    - config/error_handling.py: the with_error_handling      *)
(*                  retry loop around ErrorHandler.                        *)
(*   DownloadSpec - services/download_manager.py: download_single run by   *)
(*                  concurrent threads over one ResumeHandler.             *)
(*   Spec         - services/download_manager.py: DownloadManager, its     *)
(*                  DownloadQueue, thread pool executors and futures.      *)
(* Each has its own variables; the others' variables stay at their         *)
(* initial values.                                                         *)
(***************************************************************************)
EXTENDS Integers, Sequences, FiniteSets, TLC

VARIABLES
    \* ---- with_error_handling.wrapper (one invocation of a wrapped function)
    w_pc,           \* "call" | "caught" | "sleep" | "returned" | "raised" | "none"
    w_max,          \* the decorator's max_retries argument
    retry_count,    \* wrapper local retry_count
    calls,          \* number of times func was invoked
    sleeps,         \* number of time.sleep calls made
    w_delay,        \* the delay being slept, in ms (0 when not sleeping)
    w_err,          \* the exception in hand (classified once handled)
    w_verdict,      \* last value returned by handler.handle_error
    error_total,    \* sum of handler.error_counts
    w_onlyNet,      \* history: every exception func raised so far was a
                    \* NetworkError naming a connection or a timeout
    \* ---- DownloadManager.download_single on one worker thread
    d_pc,           \* where the thread is inside download_single
    d_url,          \* argument url
    d_cfg,          \* argument config
    d_rs,           \* local resume_state
    d_continuedl,   \* ydl_opts['continuedl'] handed to the fetcher
    d_result,       \* local result
    d_exc,          \* history: the exception the fetcher raised in this call
    d_events,       \* progress events the fetcher has emitted in this call
    d_ev,           \* the progress event the hook is handling
    d_done,         \* download_single calls that have returned
    d_loaded,       \* history: what the last load_resume_state returned and found
    \* ---- ResumeHandler
    r_store,        \* resume_dir: url -> the pickled ResumeState, if any
    r_lock,         \* ResumeHandler._lock: "free" or its holder
    files,          \* partial files on disk: path -> size in MiB (-1: no file)
    \* ---- ProgressReporter and manager statistics
    p_active,       \* _active_downloads
    p_completed,    \* _completed_downloads
    p_stats,        \* _overall_stats
    p_last_update,  \* _last_update, in ms
    p_display,      \* history: every emission of _update_display, when and by whom
    clock,          \* time.time(), in ms
    m_resumed,      \* _stats['resumed_downloads']
    cur_downloads,  \* _current_downloads (its keys)
    \* ---- DownloadManager: pool, queue and futures
    max_workers,    \* _max_workers
    executor,       \* _executor: index into executors, 0 for None
    executors,      \* every ThreadPoolExecutor created so far
    shutdown_event, \* _shutdown_event is set
    q_tasks,        \* DownloadQueue._tasks: task id -> DownloadTask
    q_queue,        \* DownloadQueue._queue
    q_counter,      \* DownloadQueue._task_counter
    active_futures, \* _active_futures (its keys)
    futures,        \* task id -> state of the Future submit returned
    t_pc,           \* task id -> where _execute_download_task is
    t_ex,           \* task id -> the executor whose worker runs it
    t_result,       \* task id -> the result _execute_download_task holds
    attempts,       \* history: download_single calls made for a task
    m_stats,        \* _stats: total, successful and failed downloads
    cs,             \* caller thread -> the manager call it is in
    ops,            \* history: manager calls started
    peak_workers    \* history: the largest _max_workers so far

retryVars == <<w_pc, w_max, retry_count, calls, sleeps, w_delay, w_err,
               w_verdict, error_total, w_onlyNet>>

downloadVars == <<d_pc, d_url, d_cfg, d_rs, d_continuedl, d_result, d_exc,
                  d_events, d_ev, d_done, d_loaded, r_store, r_lock, files,
                  p_active, p_completed, p_stats, p_last_update, p_display,
                  clock, m_resumed, cur_downloads>>

managerVars == <<max_workers, executor, executors, shutdown_event, q_tasks,
                 q_queue, q_counter, active_futures, futures, t_pc, t_ex,
                 t_result, attempts, m_stats, cs, ops, peak_workers>>

vars == <<retryVars, downloadVars, managerVars>>

\* What a step of one state machine leaves alone.
outsideRetry == <<downloadVars, managerVars>>
outsideDownload == <<retryVars, managerVars>>
outsideManager == <<retryVars, downloadVars>>

(***************************************************************************)
(*                       config/error_handling.py                          *)
(***************************************************************************)

\* Bounds of the retry model.
MaxRetriesArg == 4      \* largest max_retries handed to the decorator
RandDen == 4            \* random.random() is drawn from {0/RandDen .. (RandDen-1)/RandDen}

\* ErrorHandler.__init__
HandlerMaxRetries == 3
BaseDelayMs == 1000
MaxDelayMs == 60000
JitterPercent == 10

\* Exception classes a wrapped function can raise.  "YtDlpError" is a provider
\* exception (its type or module names yt_dlp); "Exception" is any other
\* exception; "ConfigurationError" stands for the YouTubeDownloaderError
\* subclasses handle_error has no branch for.
ErrorClasses ==
    {"RateLimitError", "NetworkError", "GeoRestrictedError", "AgeRestrictedError",
     "PrivateVideoError", "ContentError", "FileSystemError", "ProcessingError",
     "ConfigurationError", "Exception", "YtDlpError"}

\* A message is modelled by the set of keywords that occur in str(error).lower().
Keywords ==
    {"timeout", "connection", "network", "dns", "busy", "temporary",
     "unavailable", "geo", "age", "private", "rate limit", "ffmpeg"}

Messages == {{}} \cup {{k} : k \in Keywords}

\* retry_after: Optional[int] = None; NoRetryAfter stands for None.
NoRetryAfter == -1
RetryAfters == {NoRetryAfter, 0, 30}

NoError == [cls |-> "none", msg |-> {}, retry_after |-> NoRetryAfter]

RaisedErrors ==
    {[cls |-> c, msg |-> m, retry_after |-> NoRetryAfter] :
        c \in ErrorClasses \ {"RateLimitError"}, m \in Messages}
    \cup
    {[cls |-> "RateLimitError", msg |-> m, retry_after |-> r] :
        m \in {{}, {"rate limit"}}, r \in RetryAfters}

\* isinstance(error, NetworkError): RateLimitError derives from NetworkError.
IsNetworkError(e) == e.cls \in {"NetworkError", "RateLimitError"}

\* isinstance(error, ContentError)
IsContentError(e) ==
    e.cls \in {"ContentError", "GeoRestrictedError", "AgeRestrictedError",
               "PrivateVideoError"}

IsPermanentContentError(e) ==
    e.cls \in {"GeoRestrictedError", "AgeRestrictedError", "PrivateVideoError"}

AnyKeyword(msg, keywords) == msg \cap keywords # {}

\* A plausible slip: the message is not looked at.
ShouldRetryNetworkErrorAnyMessage(e, rc) ==
    IF rc >= HandlerMaxRetries THEN FALSE
    ELSE TRUE

ShouldRetryNetworkError(e, rc) ==
    IF rc >= HandlerMaxRetries THEN FALSE
    ELSE AnyKeyword(e.msg, {"timeout", "connection", "network", "dns"})

ShouldRetryFilesystemError(e, rc) ==
    IF rc >= HandlerMaxRetries THEN FALSE
    ELSE AnyKeyword(e.msg, {"busy", "locked", "temporary"})

\* A plausible slip: processing errors retried like any other error.
ShouldRetryProcessingErrorToMax(e, rc) == rc < HandlerMaxRetries

ShouldRetryProcessingError(e, rc) == rc < 1

\* A plausible slip: retried only when the server named a delay.
ShouldRetryRateLimitErrorIfHinted(e, rc) ==
    IF rc >= HandlerMaxRetries THEN FALSE ELSE e.retry_after # NoRetryAfter

ShouldRetryRateLimitError(e, rc) ==
    IF rc >= HandlerMaxRetries THEN FALSE ELSE TRUE

ShouldRetryContentError(e, rc) ==
    IF rc >= 1 THEN FALSE
    ELSE AnyKeyword(e.msg, {"temporary", "unavailable", "server error", "5xx"})

\* A plausible slip: the generic ContentError branch tested before its subclasses.
HandleErrorContentFirst(e, rc) ==
    IF e.cls = "RateLimitError" THEN ShouldRetryRateLimitError(e, rc)
    ELSE IF IsNetworkError(e) THEN ShouldRetryNetworkError(e, rc)
    ELSE IF IsContentError(e) THEN ShouldRetryContentError(e, rc)
    ELSE IF IsPermanentContentError(e) THEN FALSE
    ELSE IF e.cls = "FileSystemError" THEN ShouldRetryFilesystemError(e, rc)
    ELSE IF e.cls = "ProcessingError" THEN ShouldRetryProcessingError(e, rc)
    ELSE rc < HandlerMaxRetries

\* ErrorHandler.handle_error: the value returned (the isinstance chain).
HandleError(e, rc) ==
    IF e.cls = "RateLimitError" THEN ShouldRetryRateLimitError(e, rc)
    ELSE IF IsNetworkError(e) THEN ShouldRetryNetworkError(e, rc)
    ELSE IF IsPermanentContentError(e) THEN FALSE
    ELSE IF IsContentError(e) THEN ShouldRetryContentError(e, rc)
    ELSE IF e.cls = "FileSystemError" THEN ShouldRetryFilesystemError(e, rc)
    ELSE IF e.cls = "ProcessingError" THEN ShouldRetryProcessingError(e, rc)
    ELSE rc < HandlerMaxRetries

RECURSIVE Pow2(_)
Pow2(n) == IF n <= 0 THEN 1 ELSE 2 * Pow2(n - 1)

Min(a, b) == IF a < b THEN a ELSE b
Max(a, b) == IF a > b THEN a ELSE b

\* A plausible slip: the delay is not capped at max_delay.
GetRetryDelayUncapped(rc, e) ==
    IF e.cls = "RateLimitError" /\ e.retry_after \notin {NoRetryAfter, 0}
    THEN {e.retry_after * 1000}
    ELSE LET delay == BaseDelayMs * Pow2(rc)
         IN  {delay + (delay * JitterPercent * r) \div (100 * RandDen) :
                 r \in 0 .. RandDen - 1}

\* ErrorHandler.get_retry_delay: the delays (ms) it can return, one per value
\* of random.random().
GetRetryDelay(rc, e) ==
    IF e.cls = "RateLimitError" /\ e.retry_after \notin {NoRetryAfter, 0}
    THEN {e.retry_after * 1000}
    ELSE LET delay == Min(BaseDelayMs * Pow2(rc), MaxDelayMs)
         IN  {delay + (delay * JitterPercent * r) \div (100 * RandDen) :
                 r \in 0 .. RandDen - 1}

\* ErrorHandler.classify_yt_dlp_error: keyword sets in their order of test.  The
\* classified error's message is the prefix followed by the original message.
GeoKeywords == {"geo", "country", "region", "location", "geographic"}
AgeKeywords == {"age", "sign in", "login", "account", "restricted", "mature"}
PrivateKeywords ==
    {"private", "deleted", "removed", "unavailable", "not found", "404",
     "does not exist"}
RateLimitKeywords == {"rate limit", "too many requests", "429", "quota", "throttle"}
NetworkKeywords ==
    {"network", "connection", "timeout", "dns", "resolve", "unreachable",
     "refused", "reset"}
ProcessingKeywords == {"ffmpeg", "format", "codec", "conversion", "processing"}

\* A plausible slip: the network keywords are tested before the content ones.
ClassifyYtDlpErrorNetworkFirst(e) ==
    IF AnyKeyword(e.msg, NetworkKeywords)
    THEN [cls |-> "NetworkError",
          msg |-> {"network"} \cup e.msg, retry_after |-> NoRetryAfter]
    ELSE IF AnyKeyword(e.msg, GeoKeywords)
    THEN [cls |-> "GeoRestrictedError",
          msg |-> {"geo", "restricted"} \cup e.msg, retry_after |-> NoRetryAfter]
    ELSE IF AnyKeyword(e.msg, AgeKeywords)
    THEN [cls |-> "AgeRestrictedError",
          msg |-> {"age", "restricted"} \cup e.msg, retry_after |-> NoRetryAfter]
    ELSE IF AnyKeyword(e.msg, PrivateKeywords)
    THEN [cls |-> "PrivateVideoError",
          msg |-> {"private", "deleted"} \cup e.msg, retry_after |-> NoRetryAfter]
    ELSE IF AnyKeyword(e.msg, RateLimitKeywords)
    THEN [cls |-> "RateLimitError",
          msg |-> {"rate limit"} \cup e.msg, retry_after |-> e.retry_after]
    ELSE IF AnyKeyword(e.msg, ProcessingKeywords)
    THEN [cls |-> "ProcessingError",
          msg |-> {"processing"} \cup e.msg, retry_after |-> NoRetryAfter]
    ELSE [cls |-> "ContentError", msg |-> e.msg, retry_after |-> NoRetryAfter]

ClassifyYtDlpError(e) ==
    IF AnyKeyword(e.msg, GeoKeywords)
    THEN [cls |-> "GeoRestrictedError",
          msg |-> {"geo", "restricted"} \cup e.msg, retry_after |-> NoRetryAfter]
    ELSE IF AnyKeyword(e.msg, AgeKeywords)
    THEN [cls |-> "AgeRestrictedError",
          msg |-> {"age", "restricted"} \cup e.msg, retry_after |-> NoRetryAfter]
    ELSE IF AnyKeyword(e.msg, PrivateKeywords)
    THEN [cls |-> "PrivateVideoError",
          msg |-> {"private", "deleted"} \cup e.msg, retry_after |-> NoRetryAfter]
    ELSE IF AnyKeyword(e.msg, RateLimitKeywords)
    THEN [cls |-> "RateLimitError",
          msg |-> {"rate limit"} \cup e.msg, retry_after |-> e.retry_after]
    ELSE IF AnyKeyword(e.msg, NetworkKeywords)
    THEN [cls |-> "NetworkError",
          msg |-> {"network"} \cup e.msg, retry_after |-> NoRetryAfter]
    ELSE IF AnyKeyword(e.msg, ProcessingKeywords)
    THEN [cls |-> "ProcessingError",
          msg |-> {"processing"} \cup e.msg, retry_after |-> NoRetryAfter]
    ELSE [cls |-> "ContentError", msg |-> e.msg, retry_after |-> NoRetryAfter]

\* A plausible slip: the provider's exception is handled as it came.
ClassifiedNot(e) == e

\* wrapper: classified_error
Classified(e) == IF e.cls = "YtDlpError" THEN ClassifyYtDlpError(e) ELSE e

\* The errors the retry policy calls transient network faults.
IsTransientNetwork(e) ==
    e.cls = "NetworkError" /\ AnyKeyword(e.msg, {"connection", "timeout"})

\* The wrapper can invoke func at most this often in the model; the loop of the
\* source never gets there.
CallCap == MaxRetriesArg + 3

RetryInit ==
    /\ w_pc = "call"
    /\ w_max \in -1 .. MaxRetriesArg
    /\ retry_count = 0
    /\ calls = 0
    /\ sleeps = 0
    /\ w_delay = 0
    /\ w_err = NoError
    /\ w_verdict = FALSE
    /\ error_total = 0
    /\ w_onlyNet = TRUE

\* No wrapped function is being invoked.
RetryIdle ==
    /\ w_pc = "none"
    /\ w_max = 0
    /\ retry_count = 0
    /\ calls = 0
    /\ sleeps = 0
    /\ w_delay = 0
    /\ w_err = NoError
    /\ w_verdict = FALSE
    /\ error_total = 0
    /\ w_onlyNet = TRUE

\* while retry_count <= max_retries fails: return None
WrapFallThrough ==
    /\ w_pc = "call"
    /\ ~(retry_count <= w_max)
    /\ w_pc' = "none"
    /\ UNCHANGED <<w_max, retry_count, calls, sleeps, w_delay, w_err, w_verdict,
                   error_total, w_onlyNet>>
    /\ UNCHANGED outsideRetry

\* return func(*args, **kwargs)
WrapCallReturns ==
    /\ w_pc = "call"
    /\ retry_count <= w_max
    /\ calls < CallCap
    /\ calls' = calls + 1
    /\ w_pc' = "returned"
    /\ UNCHANGED <<w_max, retry_count, sleeps, w_delay, w_err, w_verdict,
                   error_total, w_onlyNet>>
    /\ UNCHANGED outsideRetry

\* func raises: except Exception as e
WrapCallRaises ==
    /\ w_pc = "call"
    /\ retry_count <= w_max
    /\ calls < CallCap
    /\ \E e \in RaisedErrors :
          /\ w_err' = e
          /\ w_onlyNet' = (w_onlyNet /\ IsTransientNetwork(e))
    /\ calls' = calls + 1
    /\ w_pc' = "caught"
    /\ UNCHANGED <<w_max, retry_count, sleeps, w_delay, w_verdict, error_total>>
    /\ UNCHANGED outsideRetry

\* The except block: classify, handle_error, then raise or compute the delay.
WrapHandle ==
    /\ w_pc = "caught"
    /\ LET ce == Classified(w_err)
           v  == HandleError(ce, retry_count)
       IN  /\ w_err' = ce
           /\ w_verdict' = v
           /\ error_total' = error_total + 1
           /\ IF ~v
              THEN w_pc' = "raised" /\ w_delay' = 0
              ELSE IF retry_count < w_max
              THEN /\ w_pc' = "sleep"
                   /\ w_delay' \in GetRetryDelay(retry_count, ce)
              ELSE w_pc' = "raised" /\ w_delay' = 0
    /\ UNCHANGED <<w_max, retry_count, calls, sleeps, w_onlyNet>>
    /\ UNCHANGED outsideRetry

\* A plausible slip: the retry counter is not advanced.
WrapWakeNoIncrement ==
    /\ w_pc = "sleep"
    /\ sleeps' = sleeps + 1
    /\ w_delay' = 0
    /\ w_pc' = "call"
    /\ UNCHANGED <<w_max, retry_count, calls, w_err, w_verdict, error_total,
                   w_onlyNet>>
    /\ UNCHANGED outsideRetry

\* time.sleep(delay) returns; retry_count += 1
WrapWake ==
    /\ w_pc = "sleep"
    /\ sleeps' = sleeps + 1
    /\ retry_count' = retry_count + 1
    /\ w_delay' = 0
    /\ w_pc' = "call"
    /\ UNCHANGED <<w_max, calls, w_err, w_verdict, error_total, w_onlyNet>>
    /\ UNCHANGED outsideRetry

\* Direct calls of the handler's methods, as the tests make them: any retry
\* count up to MaxRetryCount with any error the handler can be given.
MaxRetryCount == 8

HandlerErrors == {e \in RaisedErrors : e.cls # "YtDlpError"} \cup {NoError}

HandlerInit ==
    /\ w_pc = "ready"
    /\ w_max = 0
    /\ retry_count \in 0 .. MaxRetryCount
    /\ calls = 0
    /\ sleeps = 0
    /\ w_delay = 0
    /\ w_err \in HandlerErrors
    /\ w_verdict = FALSE
    /\ error_total = 0
    /\ w_onlyNet = TRUE

\* handler.handle_error(error, context, retry_count)
CallHandleError ==
    /\ w_pc = "ready"
    /\ w_err # NoError
    /\ w_verdict' = HandleError(w_err, retry_count)
    /\ error_total' = error_total + 1
    /\ w_pc' = "handled"
    /\ UNCHANGED <<w_max, retry_count, calls, sleeps, w_delay, w_err, w_onlyNet>>
    /\ UNCHANGED outsideRetry

\* handler.get_retry_delay(retry_count, error)
CallGetRetryDelay ==
    /\ w_pc = "ready"
    /\ w_delay' \in GetRetryDelay(retry_count, w_err)
    /\ w_pc' = "delayed"
    /\ UNCHANGED <<w_max, retry_count, calls, sleeps, w_err, w_verdict,
                   error_total, w_onlyNet>>
    /\ UNCHANGED outsideRetry

HandlerNext ==
    \/ CallHandleError
    \/ CallGetRetryDelay

\* Direct calls of classify_yt_dlp_error: messages in which up to MaxWords of
\* these words occur, two of each category's keywords and two of no category.
MaxWords == 3

ClassifyWords ==
    {"country", "geo", "sign in", "age", "unavailable", "404", "429",
     "rate limit", "timeout", "dns", "ffmpeg", "codec", "busy", "temporary"}

ClassifyMessages == {m \in SUBSET ClassifyWords : Cardinality(m) <= MaxWords}

ClassifyInit ==
    /\ w_pc = "ready"
    /\ w_max = 0
    /\ retry_count = 0
    /\ calls = 0
    /\ sleeps = 0
    /\ w_delay = 0
    /\ w_err \in {[cls |-> "YtDlpError", msg |-> m, retry_after |-> NoRetryAfter] :
                     m \in ClassifyMessages}
    /\ w_verdict = FALSE
    /\ error_total = 0
    /\ w_onlyNet = TRUE

\* handler.classify_yt_dlp_error(error)
CallClassify ==
    /\ w_pc = "ready"
    /\ w_err' = ClassifyYtDlpError(w_err)
    /\ w_pc' = "classified"
    /\ UNCHANGED <<w_max, retry_count, calls, sleeps, w_delay, w_verdict,
                   error_total, w_onlyNet>>
    /\ UNCHANGED outsideRetry

ClassifyNext == CallClassify

RetryNext ==
    \/ WrapFallThrough
    \/ WrapCallReturns
    \/ WrapCallRaises
    \/ WrapHandle
    \/ WrapWake


(***************************************************************************)
(*     services/download_manager.py: ResumeHandler, download_single        *)
(***************************************************************************)

\* Bounds of the download model.
MaxDownloads == 1       \* download_single calls made by the thread
MaxEvents == 1          \* progress events the fetcher emits per download

Urls == {"u1"}

\* Strings are sequences of tokens; "_" is the separator _get_config_hash uses.
\* quality and format take the values the command line admits
\* (cli/main_cli.py), none of which holds a "_"; a directory name may.
BaseConfigs ==
    {[quality |-> <<"best">>, format |-> <<"mp4">>,  dir |-> <<"dl">>],
     [quality |-> <<"720p">>, format |-> <<"mp4">>,  dir |-> <<"dl">>],
     [quality |-> <<"best">>, format |-> <<"webm">>, dir |-> <<"dl">>],
     [quality |-> <<"best">>, format |-> <<"mp4">>,  dir |-> <<"dl", "_", "x">>]}

\* DownloadConfig: the fields download_single and the ResumeHandler read.
WithResume(b, r) ==
    [quality |-> b.quality, format |-> b.format, dir |-> b.dir, resume |-> r]

DConfigs ==
    {WithResume(b, TRUE) : b \in BaseConfigs} \cup
    {WithResume([quality |-> <<"best">>, format |-> <<"mp4">>, dir |-> <<"dl">>], FALSE)}

\* f"{config.quality}_{config.format_preference}_{config.output_directory}"
ConfigStr(c) == c.quality \o <<"_">> \o c.format \o <<"_">> \o c.dir

\* ResumeHandler._get_config_hash: md5 of the string, taken to be injective.
ConfigHash(c) == ConfigStr(c)

\* The partial file of a download: filename + '.part', in the output directory.
PartPath(url, c) == <<url>> \o c.dir

Paths == {PartPath(u, c) : u \in Urls, c \in BaseConfigs}

FileSizes == {-1, 1, 2}

\* What resume_dir holds for a url: nothing, an unreadable pickle, or a ResumeState.
NoRecord == [kind |-> "none", hash |-> <<>>, path |-> <<>>, downloaded |-> 0, total |-> 0]
CorruptRecord == [kind |-> "corrupt", hash |-> <<>>, path |-> <<>>, downloaded |-> 0, total |-> 0]

ResumeState(url, c, downloaded, total) ==
    [kind |-> "state", hash |-> ConfigHash(c), path |-> PartPath(url, c),
     downloaded |-> downloaded, total |-> total]

\* downloaded_bytes of the checkpoints other downloads leave, in MiB
SavedSizes == {2}

StoredRecords(url) ==
    {NoRecord, CorruptRecord} \cup
    {ResumeState(url, c, d, 40) : c \in BaseConfigs, d \in SavedSizes}

\* ResumeState.is_valid
IsValid(rec, fs) ==
    IF fs[rec.path] = -1 THEN FALSE
    ELSE fs[rec.path] = rec.downloaded

\* Progress events of the fetcher: downloaded and total size in MiB (0: unknown).
\* 1 of 40 is 2.5 %, 2 of 40 is 5 %, 10 of 30 is 33.3 % at a multiple of 10 MiB.
ProgressEvents ==
    {[d |-> 1, t |-> 40], [d |-> 2, t |-> 40], [d |-> 10, t |-> 30], [d |-> 1, t |-> 0]}
NoEvent == [d |-> 0, t |-> 0]

\* progress_hook without the "Save every 10MB" test
ShouldSaveByPercentOnly(d, t) ==
    /\ t > 0
    /\ d > 0
    /\ (100 * d) % (5 * t) < t

\* progress_hook: should_save.  progress % 5 < 1 with progress = 100 * d / t,
\* and downloaded_bytes % 10 MiB < 1 MiB, both for sizes that are whole MiB.
ShouldSave(d, t) ==
    /\ t > 0
    /\ d > 0
    /\ \/ (100 * d) % (5 * t) < t
       \/ d % 10 < 1

\* Exceptions of the fetcher: yt_dlp.DownloadError or any other Exception.
FetcherErrors == {"DownloadError", "Exception"}
ExcTexts == {"http 403"}
NoExc == [kind |-> "none", text |-> ""]

\* DownloadResult: success, status and error_message (prefix and detail).
ResultInProgress == [success |-> FALSE, status |-> "IN_PROGRESS", error |-> <<>>]
MarkFailure(msg) == [success |-> FALSE, status |-> "FAILED", error |-> msg]
MarkSuccess == [success |-> TRUE, status |-> "COMPLETED", error |-> <<>>]

\* A plausible slip: only yt_dlp.DownloadError is caught.
CatchesDownloadErrorOnly(kind) == kind = "DownloadError"

\* download_single: except yt_dlp.DownloadError / except Exception
Catches(kind) == kind \in {"DownloadError", "Exception"}

ErrorPrefix(kind) ==
    IF kind = "DownloadError" THEN "yt-dlp download error: " ELSE "Unexpected error: "

\* ProgressReporter: one tracked download.
NotTracked == [on |-> FALSE, downloaded |-> 0, total |-> 0]

StatsInit ==
    [total_files |-> 0, completed_files |-> 0, failed_files |-> 0,
     total_bytes |-> 0, downloaded_bytes |-> 0, active_downloads |-> 0]

\* ProgressReporter.start_download: the new _active_downloads and _overall_stats.
StartDownloadActive(active, url, total) ==
    [active EXCEPT ![url] = [on |-> TRUE, downloaded |-> 0, total |-> total]]

StartDownloadStats(stats, total) ==
    [stats EXCEPT !.total_files = @ + 1,
                  !.total_bytes = @ + total,
                  !.active_downloads = @ + 1]

\* ProgressReporter.update_download
UpdateDownloadActive(active, url, d, t) ==
    IF ~active[url].on THEN active
    ELSE [active EXCEPT ![url] = [on |-> TRUE, downloaded |-> d,
                                  total |-> Max(active[url].total, t)]]

UpdateDownloadStats(stats, active, url, d) ==
    IF ~active[url].on THEN stats
    ELSE [stats EXCEPT !.downloaded_bytes = @ + (d - active[url].downloaded)]

\* ProgressReporter.complete_download
CompleteDownloadActive(active, url) ==
    IF ~active[url].on THEN active ELSE [active EXCEPT ![url] = NotTracked]

CompleteDownloadCompleted(completed, active, url, success, final_size) ==
    IF ~active[url].on THEN completed
    ELSE Append(completed,
                [status |-> IF success THEN "completed" ELSE "failed",
                 downloaded |-> IF final_size > 0 THEN final_size
                                ELSE active[url].downloaded,
                 total |-> IF final_size > 0 THEN final_size
                           ELSE active[url].total])

CompleteDownloadStats(stats, active, url, success) ==
    IF ~active[url].on THEN stats
    ELSE IF success
    THEN [stats EXCEPT !.completed_files = @ + 1, !.active_downloads = @ - 1]
    ELSE [stats EXCEPT !.failed_files = @ + 1, !.active_downloads = @ - 1]

\* self._update_interval = 0.5, in ms
UpdateInterval == 500

\* time.time() when the reporter is constructed: the clock counts from 1970,
\* far more than one interval above the 0.0 that _last_update starts with.
StartMs == 1000

\* A plausible slip: every update of a tracked download is rendered.
UpdateEmitsAlways(active, url, last, t) == active[url].on

\* update_download: "if current_time - self._last_update >= self._update_interval"
UpdateEmits(active, url, last, t) == active[url].on /\ t - last >= UpdateInterval

\* update_download: _update_display() and self._last_update = current_time
UpdateDownloadDisplay(display, active, url, last, t) ==
    IF UpdateEmits(active, url, last, t)
    THEN Append(display, [at |-> t, by |-> "update"]) ELSE display

UpdateDownloadLast(active, url, last, t) ==
    IF UpdateEmits(active, url, last, t) THEN t ELSE last

\* complete_download: the final _update_display()
CompleteDownloadDisplay(display, active, url, t) ==
    IF active[url].on THEN Append(display, [at |-> t, by |-> "complete"])
    ELSE display

NoLoad == [called |-> FALSE, ret |-> NoRecord, existed |-> FALSE, sound |-> FALSE]

\* Nothing is being downloaded: the manager right after construction.
DownloadIdle ==
    /\ d_pc = "idle"
    /\ d_url = "u1"
    /\ d_cfg = CHOOSE c \in DConfigs : TRUE
    /\ d_rs = NoRecord
    /\ d_continuedl = FALSE
    /\ d_result = ResultInProgress
    /\ d_exc = NoExc
    /\ d_events = 0
    /\ d_ev = NoEvent
    /\ d_done = 0
    /\ d_loaded = NoLoad
    /\ r_store = [u \in Urls |-> NoRecord]
    /\ r_lock = "free"
    /\ files = [p \in Paths |-> -1]
    /\ p_active = [u \in Urls |-> NotTracked]
    /\ p_completed = <<>>
    /\ p_stats = StatsInit
    /\ p_last_update = 0
    /\ p_display = <<>>
    /\ clock = StartMs
    /\ m_resumed = 0
    /\ cur_downloads = {}


\* Any state a manager can be constructed in: resume_dir and the output
\* directories hold whatever earlier runs left behind.
DownloadInit ==
    /\ d_pc = "idle"
    /\ d_url = "u1"
    /\ d_cfg = CHOOSE c \in DConfigs : TRUE
    /\ d_rs = NoRecord
    /\ d_continuedl = FALSE
    /\ d_result = ResultInProgress
    /\ d_exc = NoExc
    /\ d_events = 0
    /\ d_ev = NoEvent
    /\ d_done = 0
    /\ d_loaded = NoLoad
    /\ r_store \in [Urls -> UNION {StoredRecords(u) : u \in Urls}]
    /\ r_lock = "free"
    /\ files \in [Paths -> FileSizes]
    /\ p_active = [u \in Urls |-> NotTracked]
    /\ p_completed = <<>>
    /\ p_stats = StatsInit
    /\ p_last_update = 0
    /\ p_display = <<>>
    /\ clock = StartMs
    /\ m_resumed = 0
    /\ cur_downloads = {}

\* What load_resume_state does with the record it finds, under the lock.
LoadOutcome(rec, fs) ==
    IF rec.kind = "none" THEN "absent"
    ELSE IF rec.kind = "corrupt" THEN "cleanup"
    ELSE IF IsValid(rec, fs) THEN "valid"
    ELSE "cleanup"

LoadGhost(rec, fs) ==
    [called |-> TRUE,
     ret |-> IF LoadOutcome(rec, fs) = "valid" THEN rec ELSE NoRecord,
     existed |-> rec.kind # "none",
     sound |-> rec.kind = "state" /\ IsValid(rec, fs)]

reporterVars == <<p_active, p_completed, p_stats, p_last_update, p_display, clock>>
resumeVars == <<r_store, r_lock, files>>
callVars == <<d_url, d_cfg>>

\* download_single(url, config) is entered: result = DownloadResult(success=False)
DsStart ==
    /\ d_pc = "idle"
    /\ d_done < MaxDownloads
    /\ \E u \in Urls, c \in DConfigs :
          /\ d_url' = u
          /\ d_cfg' = c
    /\ d_rs' = NoRecord
    /\ d_continuedl' = FALSE
    /\ d_result' = ResultInProgress
    /\ d_exc' = NoExc
    /\ d_events' = 0
    /\ d_ev' = NoEvent
    /\ d_loaded' = NoLoad
    /\ d_pc' = "mkdir"
    /\ UNCHANGED <<d_done, resumeVars, reporterVars, m_resumed, cur_downloads>>
    /\ UNCHANGED outsideDownload

\* output_dir.mkdir(parents=True, exist_ok=True); then if config.resume_downloads
DsMkdir ==
    /\ d_pc = "mkdir"
    /\ \/ /\ d_pc' = IF d_cfg.resume THEN "load1" ELSE "opts"
          /\ UNCHANGED d_exc
       \/ /\ d_exc' = [kind |-> "Exception", text |-> "disk full"]
          /\ d_pc' = "except"
    /\ UNCHANGED <<callVars, d_rs, d_continuedl, d_result, d_events, d_ev, d_done,
                   d_loaded, resumeVars, reporterVars, m_resumed, cur_downloads>>
    /\ UNCHANGED outsideDownload

\* resume_state = self._resume_handler.load_resume_state(url)
\* An invalid or unreadable record leaves the thread inside the with block,
\* the lock held, about to call clear_resume_state.
DsLoadResumeState ==
    /\ d_pc = "load1"
    /\ r_lock = "free"
    /\ LET rec == r_store[d_url]
           out == LoadOutcome(rec, files)
       IN  /\ d_loaded' = LoadGhost(rec, files)
           /\ CASE out = "absent"  -> /\ d_rs' = NoRecord
                                      /\ d_pc' = "opts"
                                      /\ UNCHANGED r_lock
                [] out = "valid"   -> /\ d_rs' = rec
                                      /\ d_pc' = "cr_load"
                                      /\ UNCHANGED r_lock
                [] out = "cleanup" -> /\ d_rs' = NoRecord
                                      /\ d_pc' = "load1_clear"
                                      /\ r_lock' = "self"
    /\ UNCHANGED <<callVars, d_continuedl, d_result, d_exc, d_events, d_ev, d_done,
                   r_store, files, reporterVars, m_resumed, cur_downloads>>
    /\ UNCHANGED outsideDownload

\* can_resume(url, config): its own load_resume_state and the hash comparison.
DsCanResume ==
    /\ d_pc = "cr_load"
    /\ r_lock = "free"
    /\ LET rec == r_store[d_url]
           out == LoadOutcome(rec, files)
       IN  /\ d_loaded' = LoadGhost(rec, files)
           /\ CASE out = "absent"  -> /\ d_rs' = NoRecord
                                      /\ d_pc' = "opts"
                                      /\ UNCHANGED r_lock
                [] out = "valid"   -> /\ UNCHANGED <<d_rs, r_lock>>
                                      /\ d_pc' = IF rec.hash # ConfigHash(d_cfg)
                                                 THEN "cr_clear" ELSE "opts"
                [] out = "cleanup" -> /\ UNCHANGED d_rs
                                      /\ d_pc' = "cr_load_clear"
                                      /\ r_lock' = "self"
    /\ UNCHANGED <<callVars, d_continuedl, d_result, d_exc, d_events, d_ev, d_done,
                   r_store, files, reporterVars, m_resumed, cur_downloads>>
    /\ UNCHANGED outsideDownload

ClearSites == {"load1_clear", "cr_load_clear", "cr_clear", "hook_finished"}

\* clear_resume_state(url), from each place download_single reaches it: inside
\* load_resume_state (twice), in can_resume, and in the 'finished' hook.
DsClear ==
    /\ d_pc \in ClearSites
    /\ r_lock = "free"
    /\ r_store' = [r_store EXCEPT ![d_url] = NoRecord]
    /\ r_lock' = "free"
    /\ d_pc' = IF d_pc = "hook_finished" THEN "finished" ELSE "opts"
    /\ d_rs' = IF d_pc = "hook_finished" THEN d_rs ELSE NoRecord
    /\ UNCHANGED <<callVars, d_continuedl, d_result, d_exc, d_events, d_ev, d_done,
                   d_loaded, files, reporterVars, m_resumed, cur_downloads>>
    /\ UNCHANGED outsideDownload

\* _build_ydl_options, the progress hook, and "if resume_state:" with its
\* continuedl and resumed_downloads.
DsBuildOptions ==
    /\ d_pc = "opts"
    /\ d_continuedl' = (d_cfg.resume \/ d_rs # NoRecord)
    /\ m_resumed' = IF d_rs # NoRecord THEN m_resumed + 1 ELSE m_resumed
    /\ d_pc' = "extract"
    /\ d_loaded' = NoLoad
    /\ UNCHANGED <<callVars, d_rs, d_result, d_exc, d_events, d_ev, d_done,
                   resumeVars, reporterVars, cur_downloads>>
    /\ UNCHANGED outsideDownload

EstimatedSizes == {40}

\* info = ydl.extract_info(url, download=False), up to start_download.
\* resume_state is not read again after the options are built.
DsExtractInfo ==
    /\ d_pc = "extract"
    /\ \/ \* not info
          /\ d_result' = MarkFailure(<<"Failed to extract video information">>)
          /\ d_pc' = "finally"
          /\ UNCHANGED <<d_exc, reporterVars>>
       \/ \* the fetcher raises
          /\ \E k \in FetcherErrors, t \in ExcTexts : d_exc' = [kind |-> k, text |-> t]
          /\ d_pc' = "except"
          /\ UNCHANGED <<d_result, reporterVars>>
       \/ \* metadata extracted; start_download(url, safe_title, estimated_size)
          /\ \E size \in EstimatedSizes :
                /\ p_active' = StartDownloadActive(p_active, d_url, size)
                /\ p_stats' = StartDownloadStats(p_stats, size)
          /\ d_pc' = "download"
          /\ UNCHANGED <<d_result, d_exc, p_completed, p_last_update, p_display,
                         clock>>
    /\ d_rs' = NoRecord
    /\ UNCHANGED <<callVars, d_continuedl, d_events, d_ev, d_done, d_loaded,
                   resumeVars, m_resumed, cur_downloads>>
    /\ UNCHANGED outsideDownload

\* ydl.download([url]) writes the partial file and calls progress_hook with
\* status 'downloading': _current_downloads, update_download, should_save.
HookDownloading(ev) ==
    /\ d_pc = "download"
    /\ d_events < MaxEvents
    /\ d_ev' = IF ShouldSave(ev.d, ev.t) THEN ev ELSE NoEvent
    /\ files' = [files EXCEPT ![PartPath(d_url, d_cfg)] = ev.d]
    /\ p_active' = UpdateDownloadActive(p_active, d_url, ev.d, ev.t)
    /\ p_stats' = UpdateDownloadStats(p_stats, p_active, d_url, ev.d)
    /\ d_pc' = IF ShouldSave(ev.d, ev.t) THEN "hook_save" ELSE "download"
    /\ p_display' = UpdateDownloadDisplay(p_display, p_active, d_url,
                                          p_last_update, clock)
    /\ p_last_update' = UpdateDownloadLast(p_active, d_url, p_last_update, clock)
    /\ d_events' = d_events + 1
    /\ cur_downloads' = cur_downloads \cup {d_url}
    /\ UNCHANGED <<callVars, d_rs, d_continuedl, d_result, d_exc, d_done, d_loaded,
                   r_store, r_lock, p_completed, clock, m_resumed>>
    /\ UNCHANGED outsideDownload

DsProgress == \E ev \in ProgressEvents : HookDownloading(ev)

\* What the fetcher raises when progress_hook raised: update_download is called
\* outside any try, and its _update_display prints to a stdout that can refuse
\* the text (an encoding without the bar characters, a closed pipe).
HookFailure == [kind |-> "Exception", text |-> "display"]

\* progress_hook with status 'downloading' when update_download raises while
\* rendering: the reporter's numbers are already updated, the exception leaves
\* the hook and ydl.download([url]) with it.
DsHookRaises ==
    /\ d_pc = "download"
    /\ d_events < MaxEvents
    /\ UpdateEmits(p_active, d_url, p_last_update, clock)
    /\ \E ev \in ProgressEvents :
          /\ files' = [files EXCEPT ![PartPath(d_url, d_cfg)] = ev.d]
          /\ p_active' = UpdateDownloadActive(p_active, d_url, ev.d, ev.t)
          /\ p_stats' = UpdateDownloadStats(p_stats, p_active, d_url, ev.d)
    /\ d_events' = d_events + 1
    /\ cur_downloads' = cur_downloads \cup {d_url}
    /\ d_exc' = HookFailure
    /\ d_pc' = "except"
    /\ UNCHANGED <<callVars, d_rs, d_continuedl, d_result, d_ev, d_done, d_loaded,
                   r_store, r_lock, p_completed, p_last_update, p_display, clock,
                   m_resumed>>
    /\ UNCHANGED outsideDownload

\* save_resume_state in the hook; a failed write is swallowed.
DsHookSave ==
    /\ d_pc = "hook_save"
    /\ r_lock = "free"
    /\ \/ r_store' = [r_store EXCEPT
                         ![d_url] = ResumeState(d_url, d_cfg, d_ev.d, d_ev.t)]
       \/ UNCHANGED r_store
    /\ d_pc' = "download"
    /\ d_ev' = NoEvent
    /\ UNCHANGED <<callVars, d_rs, d_continuedl, d_result, d_exc, d_events,
                   d_done, d_loaded, r_lock, files, reporterVars, m_resumed,
                   cur_downloads>>
    /\ UNCHANGED outsideDownload

\* ydl.download raises (a fetcher error, or one a progress callback raised)
DsFetcherRaises ==
    /\ d_pc = "download"
    /\ \E k \in FetcherErrors, t \in ExcTexts : d_exc' = [kind |-> k, text |-> t]
    /\ d_pc' = "except"
    /\ UNCHANGED <<callVars, d_rs, d_continuedl, d_result, d_events, d_ev, d_done,
                   d_loaded, resumeVars, reporterVars, m_resumed, cur_downloads>>
    /\ UNCHANGED outsideDownload

\* ydl.download([url]) returns without a 'finished' call of the hook: the
\* fetcher found the file already downloaded and emitted no event for it (as
\* does the fetcher the tests put in its place).
DsFetcherReturns ==
    /\ d_pc = "download"
    /\ UNCHANGED files
    /\ d_pc' = "finished"
    /\ UNCHANGED <<callVars, d_rs, d_continuedl, d_result, d_exc, d_events, d_ev,
                   d_done, d_loaded, r_store, r_lock, reporterVars, m_resumed,
                   cur_downloads>>
    /\ UNCHANGED outsideDownload

\* The fetcher completes the file and calls progress_hook with 'finished'.
DsFetcherFinished ==
    /\ d_pc = "download"
    /\ files' = [files EXCEPT ![PartPath(d_url, d_cfg)] = -1]
    /\ d_pc' = "hook_finished"
    /\ UNCHANGED <<callVars, d_rs, d_continuedl, d_result, d_exc, d_events, d_ev,
                   d_done, d_loaded, r_store, r_lock, reporterVars, m_resumed,
                   cur_downloads>>
    /\ UNCHANGED outsideDownload

FinalSizes == {2}

\* _find_downloaded_file, mark_success or mark_failure, complete_download
DsFindFile ==
    /\ d_pc = "finished"
    /\ \/ /\ d_result' = MarkSuccess
          /\ \E fsz \in FinalSizes :
                p_completed' = CompleteDownloadCompleted(p_completed, p_active,
                                                         d_url, TRUE, fsz)
          /\ p_stats' = CompleteDownloadStats(p_stats, p_active, d_url, TRUE)
       \/ /\ d_result' = MarkFailure(<<"Downloaded file not found">>)
          /\ p_completed' = CompleteDownloadCompleted(p_completed, p_active,
                                                      d_url, FALSE, 0)
          /\ p_stats' = CompleteDownloadStats(p_stats, p_active, d_url, FALSE)
    /\ p_active' = CompleteDownloadActive(p_active, d_url)
    /\ p_display' = CompleteDownloadDisplay(p_display, p_active, d_url, clock)
    /\ d_pc' = "finally"
    /\ UNCHANGED <<callVars, d_rs, d_continuedl, d_exc, d_events, d_ev, d_done,
                   d_loaded, resumeVars, p_last_update, clock, m_resumed,
                   cur_downloads>>
    /\ UNCHANGED outsideDownload

\* except yt_dlp.DownloadError / except Exception: mark_failure, complete_download
DsExcept ==
    /\ d_pc = "except"
    /\ IF Catches(d_exc.kind)
       THEN /\ d_result' = MarkFailure(<<ErrorPrefix(d_exc.kind), d_exc.text>>)
            /\ p_completed' = CompleteDownloadCompleted(p_completed, p_active,
                                                        d_url, FALSE, 0)
            /\ p_stats' = CompleteDownloadStats(p_stats, p_active, d_url, FALSE)
            /\ p_active' = CompleteDownloadActive(p_active, d_url)
            /\ p_display' = CompleteDownloadDisplay(p_display, p_active, d_url, clock)
            /\ UNCHANGED <<p_last_update, clock>>
       ELSE UNCHANGED <<d_result, reporterVars>>
    /\ d_pc' = "finally"
    /\ UNCHANGED <<callVars, d_rs, d_continuedl, d_exc, d_events, d_ev, d_done,
                   d_loaded, resumeVars, m_resumed, cur_downloads>>
    /\ UNCHANGED outsideDownload

\* finally: self._current_downloads.pop(url, None); then return result, or the
\* exception no clause caught goes on to the caller.
DsFinally ==
    /\ d_pc = "finally"
    /\ cur_downloads' = cur_downloads \ {d_url}
    /\ d_pc' = IF d_exc # NoExc /\ ~Catches(d_exc.kind) THEN "raised" ELSE "returned"
    /\ d_done' = d_done + 1
    /\ UNCHANGED <<callVars, d_rs, d_continuedl, d_result, d_exc, d_events, d_ev,
                   d_loaded, resumeVars, reporterVars, m_resumed>>
    /\ UNCHANGED outsideDownload

\* The caller has the outcome and the frame of download_single is gone; the
\* thread is free for its next task.
DsReturn ==
    /\ d_pc \in {"returned", "raised"}
    /\ d_pc' = "idle"
    /\ d_url' = "u1"
    /\ d_cfg' = CHOOSE c \in DConfigs : TRUE
    /\ d_rs' = NoRecord
    /\ d_continuedl' = FALSE
    /\ d_result' = ResultInProgress
    /\ d_exc' = NoExc
    /\ d_events' = 0
    /\ d_ev' = NoEvent
    /\ d_loaded' = NoLoad
    /\ UNCHANGED <<d_done, resumeVars, reporterVars, m_resumed, cur_downloads>>
    /\ UNCHANGED outsideDownload

\* Another worker thread's progress hook saves a checkpoint for a url.
OtherSave ==
    /\ r_lock = "free"
    /\ \E u \in Urls, c \in BaseConfigs, d \in SavedSizes :
          r_store' = [r_store EXCEPT ![u] = ResumeState(u, c, d, 40)]
    /\ UNCHANGED <<d_pc, callVars, d_rs, d_continuedl, d_result, d_exc, d_events,
                   d_ev, d_done, d_loaded, r_lock, files, reporterVars, m_resumed,
                   cur_downloads>>
    /\ UNCHANGED outsideDownload

\* Another worker thread's 'finished' hook clears the checkpoint of a url.
OtherClear ==
    /\ r_lock = "free"
    /\ \E u \in Urls : r_store' = [r_store EXCEPT ![u] = NoRecord]
    /\ UNCHANGED <<d_pc, callVars, d_rs, d_continuedl, d_result, d_exc, d_events,
                   d_ev, d_done, d_loaded, r_lock, files, reporterVars, m_resumed,
                   cur_downloads>>
    /\ UNCHANGED outsideDownload

\* Another worker's fetcher grows, completes or restarts a partial file.
OtherFetcherWrites ==
    /\ \E p \in Paths, sz \in FileSizes : files' = [files EXCEPT ![p] = sz]
    /\ UNCHANGED <<d_pc, callVars, d_rs, d_continuedl, d_result, d_exc, d_events,
                   d_ev, d_done, d_loaded, r_store, r_lock, reporterVars,
                   m_resumed, cur_downloads>>
    /\ UNCHANGED outsideDownload

DownloadNext ==
    \/ DsStart
    \/ DsMkdir
    \/ DsLoadResumeState
    \/ DsCanResume
    \/ DsClear
    \/ DsBuildOptions
    \/ DsExtractInfo
    \/ DsProgress
    \/ DsHookSave
    \/ DsHookRaises
    \/ DsFetcherRaises
    \/ DsFetcherFinished
    \/ DsFetcherReturns
    \/ DsFindFile
    \/ DsExcept
    \/ DsFinally
    \/ DsReturn
    \/ OtherSave
    \/ OtherClear
    \/ OtherFetcherWrites

\* download_single calls while no other thread downloads the same url.
SingleNext ==
    \/ DsStart
    \/ DsMkdir
    \/ DsLoadResumeState
    \/ DsCanResume
    \/ DsClear
    \/ DsBuildOptions
    \/ DsExtractInfo
    \/ DsProgress
    \/ DsHookSave
    \/ DsHookRaises
    \/ DsFetcherRaises
    \/ DsFetcherFinished
    \/ DsFetcherReturns
    \/ DsFindFile
    \/ DsExcept
    \/ DsFinally
    \/ DsReturn

(***************************************************************************)
(*   services/download_manager.py: DownloadManager, DownloadQueue, pool    *)
(***************************************************************************)

\* Bounds of the manager model.
MaxTasks == 3           \* tasks add_task creates
MaxExecutors == 2       \* ThreadPoolExecutors the manager creates
MaxBatch == 2           \* urls in one batch
MaxOps == 2             \* manager calls the caller threads make

Tasks == 1 .. MaxTasks
Executors == 1 .. MaxExecutors
Callers == {"c1", "c2"}

\* The batches callers submit: n distinct single-video urls.
UrlOf(k) == <<"u", k>>
UrlLists == {[k \in 1 .. n |-> UrlOf(k)] : n \in 1 .. MaxBatch}

\* A playlist url, and _is_playlist_url: the url holds 'playlist', 'list=',
\* '/c/', '/channel/' or '/user/'.
PlaylistOf(k) == <<"p", k>>
IsPlaylistUrl(url) == url[1] = "p"
IsSingleUrl(url) == ~IsPlaylistUrl(url)

\* DownloadConfig: the fields the batch code reads.
BatchConfigs ==
    {[max_parallel_downloads |-> 2, retry_attempts |-> 2],
     [max_parallel_downloads |-> 1, retry_attempts |-> 0]}

\* Arguments callers pass to set_parallel_workers.
WorkerCounts == {0, 1, 2}

\* A plausible slip: the upper limit alone is applied.
ClampWorkersNoFloor(count) == Min(count, 10)

\* max(1, min(count, 10))
ClampWorkers(count) == Max(1, Min(count, 10))

\* What one download_single call can do: a result, or (when it is replaced
\* by a collaborator that raises, as the tests do) an exception.
RetryableFailure == MarkFailure(<<"yt-dlp download error: ", "connection timeout">>)
PermanentFailure == MarkFailure(<<"yt-dlp download error: ", "private video">>)
DownloadReturns == {MarkSuccess, RetryableFailure, PermanentFailure}
DownloadRaises == {"boom"}

\* The error classes a retry would be decided on (config/error_handling.py).
IsRetryableResult(r) == r = RetryableFailure

NoConfig == [max_parallel_downloads |-> 0, retry_attempts |-> 0]

NoTask == [status |-> "none", url |-> <<>>, cfg |-> NoConfig, has_result |-> FALSE]
\* A DownloadResult with its history: the task (or, in a sequential batch, the
\* url position) it is the result of, and what the download call did: "ok",
\* "failed", "raised", "cancelled" or "notfound".
Tagged(r, origin, outcome) == [res |-> r, of |-> origin, out |-> outcome]

NoResult == Tagged(ResultInProgress, 0, "none")

IdleCaller ==
    [pc |-> "idle", op |-> "none", urls |-> <<>>, cfg |-> NoConfig, i |-> 0,
     need |-> FALSE, ex |-> 0, f2i |-> <<>>, seen |-> {}, results |-> <<>>,
     ret |-> <<>>, wait |-> FALSE, arg |-> 0, flag |-> FALSE,
     pending |-> {}, running |-> {}, request |-> <<>>, playlists |-> <<>>]

StatsZero == [total |-> 0, successful |-> 0, failed |-> 0]

\* _update_statistics
UpdateStatistics(st, r) ==
    [total |-> st.total + 1,
     successful |-> st.successful + (IF r.success THEN 1 ELSE 0),
     failed |-> st.failed + (IF r.success THEN 0 ELSE 1)]

\* A plausible slip: the pool does not count its busy workers.
RunningOnUncounted(e) == {}

\* Tasks a worker of executor e is executing.
RunningOn(e) == {t \in Tasks : t_ex[t] = e /\ t_pc[t] \in {"download", "complete"}}

\* Tasks whose fetch (download_single) is under way.
Fetching == {t \in Tasks : t_pc[t] = "download"}

\* Tasks a worker thread is executing, on whatever executor.
Executing == {t \in Tasks : t_pc[t] \in {"download", "complete"}}

\* Tasks submitted to an executor that no worker has taken yet.
NotStarted == {t \in Tasks : t_pc[t] = "queued"}

\* The manager right after construction.
ManagerIdle ==
    /\ max_workers = 1
    /\ executor = 0
    /\ executors = <<>>
    /\ shutdown_event = FALSE
    /\ q_tasks = [t \in Tasks |-> NoTask]
    /\ q_queue = <<>>
    /\ q_counter = 0
    /\ active_futures = {}
    /\ futures = [t \in Tasks |-> "none"]
    /\ t_pc = [t \in Tasks |-> "none"]
    /\ t_ex = [t \in Tasks |-> 0]
    /\ t_result = [t \in Tasks |-> NoResult]
    /\ attempts = [t \in Tasks |-> 0]
    /\ m_stats = StatsZero
    /\ cs = [c \in Callers |-> IdleCaller]
    /\ ops = 0
    /\ peak_workers = 1

\* def __init__(self, ..., max_workers: int = 3)
DefaultMaxWorkers == 3

\* DownloadManager(max_workers), max_workers one of counts
ManagerConstructed(counts) ==
    /\ max_workers \in {ClampWorkers(n) : n \in counts}
    /\ executor = 0
    /\ executors = <<>>
    /\ shutdown_event = FALSE
    /\ q_tasks = [t \in Tasks |-> NoTask]
    /\ q_queue = <<>>
    /\ q_counter = 0
    /\ active_futures = {}
    /\ futures = [t \in Tasks |-> "none"]
    /\ t_pc = [t \in Tasks |-> "none"]
    /\ t_ex = [t \in Tasks |-> 0]
    /\ t_result = [t \in Tasks |-> NoResult]
    /\ attempts = [t \in Tasks |-> 0]
    /\ m_stats = StatsZero
    /\ cs = [c \in Callers |-> IdleCaller]
    /\ ops = 0
    /\ peak_workers = max_workers

ManagerInit == ManagerConstructed(WorkerCounts)

\* Task ids the parallel batches under way have still to create.
Reserved ==
    LET left(c) == IF cs[c].pc \in {"par_ensure", "par_create", "par_submit", "par_register"}
                   THEN Len(cs[c].urls) - cs[c].i - (IF cs[c].pc = "par_register" THEN 1 ELSE 0)
                   ELSE 0
    IN  left("c1") + left("c2")

\* download_batch(urls, config): the urls are split into single videos and
\* playlists, and the single videos go to the parallel or the sequential
\* helper.
CallBatchWithin(c, lists, limit) ==
    /\ cs[c].pc = "idle"
    /\ ops < limit
    /\ \E request \in lists, cfg \in BatchConfigs :
          LET urls      == SelectSeq(request, IsSingleUrl)
              playlists == SelectSeq(request, IsPlaylistUrl)
              parallel  == max_workers > 1 /\ cfg.max_parallel_downloads > 1
          IN  /\ parallel => q_counter + Reserved + Len(urls) <= MaxTasks
              /\ cs' = [cs EXCEPT ![c] =
                          [IdleCaller EXCEPT !.pc = IF urls = <<>> THEN "playlists"
                                                   ELSE IF parallel THEN "par_ensure"
                                                   ELSE "seq_loop",
                                             !.op = IF urls = <<>> THEN "playlists"
                                                   ELSE IF parallel THEN "parallel"
                                                   ELSE "sequential",
                                             !.urls = urls,
                                             !.request = request,
                                             !.playlists = playlists,
                                             !.cfg = cfg]]
    /\ ops' = ops + 1
    /\ UNCHANGED <<max_workers, executor, executors, shutdown_event, q_tasks,
                   q_queue, q_counter, active_futures, futures, t_pc, t_ex,
                   t_result, attempts, m_stats, peak_workers>>
    /\ UNCHANGED outsideManager

CallBatchOf(c, lists) == CallBatchWithin(c, lists, MaxOps)

CallBatch(c) == CallBatchOf(c, UrlLists)

\* download_batch after "results.extend(single_results)": on to the
\* playlists, if there are any.
AfterSingles(c) == IF cs[c].playlists = <<>> THEN "returned" ELSE "playlists"

\* _ensure_executor: the test "self._executor is None or self._executor._shutdown"
ParEnsureCheck(c) ==
    /\ cs[c].pc = "par_ensure"
    /\ cs' = [cs EXCEPT ![c].need = (executor = 0 \/ executors[executor].shut),
                        ![c].pc = "par_create"]
    /\ UNCHANGED <<max_workers, executor, executors, shutdown_event, q_tasks,
                   q_queue, q_counter, active_futures, futures, t_pc, t_ex,
                   t_result, attempts, m_stats, ops, peak_workers>>
    /\ UNCHANGED outsideManager

\* _ensure_executor: the assignment, if the test held, and return self._executor
ParEnsureGet(c) ==
    /\ cs[c].pc = "par_create"
    /\ IF cs[c].need
       THEN /\ Len(executors) < MaxExecutors
            /\ executors' = Append(executors,
                                   [max_workers |-> max_workers, shut |-> FALSE,
                                    queue |-> <<>>])
            /\ executor' = Len(executors) + 1
       ELSE UNCHANGED <<executor, executors>>
    /\ cs' = [cs EXCEPT ![c].ex = executor', ![c].pc = "par_submit"]
    /\ UNCHANGED <<max_workers, shutdown_event, q_tasks, q_queue, q_counter,
                   active_futures, futures, t_pc, t_ex, t_result, attempts,
                   m_stats, ops, peak_workers>>
    /\ UNCHANGED outsideManager

\* The submit loop: add_task, then executor.submit, which raises once the
\* executor is shut down (and so does calling it on None).
ParSubmit(c) ==
    /\ cs[c].pc = "par_submit"
    /\ q_counter < MaxTasks
    /\ LET t   == q_counter + 1
           url == cs[c].urls[cs[c].i + 1]
           e   == cs[c].ex
       IN  /\ q_counter' = t
           /\ q_tasks' = [q_tasks EXCEPT ![t] =
                             [status |-> "QUEUED", url |-> url, cfg |-> cs[c].cfg,
                              has_result |-> FALSE]]
           /\ q_queue' = Append(q_queue, t)
           /\ IF e = 0 \/ executors[e].shut
              THEN /\ cs' = [cs EXCEPT ![c].pc = "raised"]
                   /\ UNCHANGED <<executors, futures, t_pc, t_ex>>
              ELSE /\ executors' = [executors EXCEPT ![e].queue = Append(@, t)]
                   /\ futures' = [futures EXCEPT ![t] = "PENDING"]
                   /\ t_pc' = [t_pc EXCEPT ![t] = "queued"]
                   /\ t_ex' = [t_ex EXCEPT ![t] = e]
                   /\ cs' = [cs EXCEPT ![c].f2i = Append(@, t),
                                       ![c].pc = "par_register"]
    /\ UNCHANGED <<max_workers, executor, shutdown_event, active_futures,
                   t_result, attempts, m_stats, ops, peak_workers>>
    /\ UNCHANGED outsideManager

\* with self._lock: self._active_futures[task_id] = future
ParRegister(c) ==
    /\ cs[c].pc = "par_register"
    /\ active_futures' = active_futures \cup {cs[c].f2i[Len(cs[c].f2i)]}
    /\ cs' = [cs EXCEPT ![c].i = @ + 1,
                        ![c].pc = IF cs[c].i + 1 = Len(cs[c].urls)
                                  THEN "par_collect" ELSE "par_submit"]
    /\ UNCHANGED <<max_workers, executor, executors, shutdown_event, q_tasks,
                   q_queue, q_counter, futures, t_pc, t_ex, t_result, attempts,
                   m_stats, ops, peak_workers>>
    /\ UNCHANGED outsideManager

\* error_result.mark_failure(f"Batch download error for {url}: {str(e)}")
BatchError(url, text) == MarkFailure(<<"Batch download error for ", url, ": ", text>>)

\* Position of task t in future_to_info: the i of (i, url, task_id), from 0.
IndexOf(f2i, t) == (CHOOSE k \in 1 .. Len(f2i) : f2i[k] = t) - 1

\* One turn of "for future in as_completed(...)": a future that is finished, or
\* cancelled and notified, is popped from _active_futures and its result, or
\* the CancelledError result() raises, is recorded.
ParCollect(c) ==
    /\ cs[c].pc = "par_collect"
    /\ \E k \in 1 .. Len(cs[c].f2i) :
          LET t == cs[c].f2i[k]
              r == IF futures[t] = "FINISHED"
                   THEN t_result[t]
                   ELSE Tagged(BatchError(q_tasks[t].url, ""), t, "cancelled")
          IN  /\ t \notin cs[c].seen
              /\ futures[t] \in {"FINISHED", "CANCELLED_AND_NOTIFIED"}
              /\ active_futures' = active_futures \ {t}
              /\ m_stats' = UpdateStatistics(m_stats, r.res)
              /\ cs' = [cs EXCEPT ![c].seen = @ \cup {t},
                                  ![c].results = Append(@, <<IndexOf(cs[c].f2i, t), r>>)]
    /\ UNCHANGED <<max_workers, executor, executors, shutdown_event, q_tasks,
                   q_queue, q_counter, futures, t_pc, t_ex, t_result, attempts,
                   ops, peak_workers>>
    /\ UNCHANGED outsideManager

\* Insert x into a list sorted by first component, after its equals.
RECURSIVE InsertByIndex(_, _)
InsertByIndex(sorted, x) ==
    IF sorted = <<>> THEN <<x>>
    ELSE IF x[1] < Head(sorted)[1] THEN <<x>> \o sorted
    ELSE <<Head(sorted)>> \o InsertByIndex(Tail(sorted), x)

RECURSIVE SortRec(_, _)
SortRec(done, rest) ==
    IF rest = <<>> THEN done
    ELSE SortRec(InsertByIndex(done, Head(rest)), Tail(rest))

\* A plausible slip: the results are returned in completion order.
SortByIndexOmitted(results) == results

\* results.sort(key=lambda x: x[0]): a stable sort by the first component
SortByIndex(results) == SortRec(<<>>, results)

\* return [result for _, result in results], once as_completed is exhausted
ParReturn(c) ==
    /\ cs[c].pc = "par_collect"
    /\ cs[c].seen = {cs[c].f2i[k] : k \in 1 .. Len(cs[c].f2i)}
    /\ LET sorted == SortByIndex(cs[c].results)
       IN  cs' = [cs EXCEPT ![c].ret = [k \in 1 .. Len(sorted) |-> sorted[k][2]],
                            ![c].pc = AfterSingles(c)]
    /\ UNCHANGED <<max_workers, executor, executors, shutdown_event, q_tasks,
                   q_queue, q_counter, active_futures, futures, t_pc, t_ex,
                   t_result, attempts, m_stats, ops, peak_workers>>
    /\ UNCHANGED outsideManager

\* A plausible slip: a download that raises is left out of the results.
SeqOnRaiseDropped(results, url, i, text) == results

\* _download_batch_sequential, except Exception as e: the error result
SeqOnRaise(results, url, i, text) ==
    Append(results, Tagged(BatchError(url, text), i, "raised"))

\* One turn of the loop of _download_batch_sequential: download_single
\* returns a result or raises; the progress callback returns.
SeqDownload(c) ==
    /\ cs[c].pc = "seq_loop"
    /\ cs[c].i < Len(cs[c].urls)
    /\ LET i   == cs[c].i + 1
           url == cs[c].urls[i]
       IN  \/ \E r \in DownloadReturns :
                 cs' = [cs EXCEPT ![c].results =
                                     Append(@, Tagged(r, i, IF r.success THEN "ok"
                                                            ELSE "failed")),
                                  ![c].i = i]
           \/ \E x \in DownloadRaises :
                 cs' = [cs EXCEPT ![c].results = SeqOnRaise(@, url, i, x),
                                  ![c].i = i]
    /\ UNCHANGED <<max_workers, executor, executors, shutdown_event, q_tasks,
                   q_queue, q_counter, active_futures, futures, t_pc, t_ex,
                   t_result, attempts, m_stats, ops, peak_workers>>
    /\ UNCHANGED outsideManager

\* return results
SeqReturn(c) ==
    /\ cs[c].pc = "seq_loop"
    /\ cs[c].i = Len(cs[c].urls)
    /\ cs' = [cs EXCEPT ![c].ret = cs[c].results, ![c].pc = AfterSingles(c)]
    /\ UNCHANGED <<max_workers, executor, executors, shutdown_event, q_tasks,
                   q_queue, q_counter, active_futures, futures, t_pc, t_ex,
                   t_result, attempts, m_stats, ops, peak_workers>>
    /\ UNCHANGED outsideManager

\* What download_playlist returns on the sequential path: one result when the
\* playlist cannot be read or has no accessible entry, else one result per
\* entry, each what download_single returned for it.
MaxEntries == 2
PlaylistReturns ==
    UNION {[1 .. n -> {MarkSuccess, PermanentFailure}] : n \in 1 .. MaxEntries}

\* One turn of "for i, playlist_url in enumerate(playlists, 1)" when the
\* playlist's videos are downloaded one after the other:
\* results.extend(self.download_playlist(playlist_url, config)).
BatchPlaylist(c) ==
    /\ cs[c].pc = "playlists"
    /\ cs[c].playlists # <<>>
    /\ ~(max_workers > 1 /\ cs[c].cfg.max_parallel_downloads > 1)
    /\ \E rs \in PlaylistReturns :
          LET url == Head(cs[c].playlists)
          IN  cs' = [cs EXCEPT ![c].ret =
                                  @ \o [k \in 1 .. Len(rs) |-> Tagged(rs[k], url[2], "playlist")],
                               ![c].playlists = Tail(@)]
    /\ UNCHANGED <<max_workers, executor, executors, shutdown_event, q_tasks,
                   q_queue, q_counter, active_futures, futures, t_pc, t_ex,
                   t_result, attempts, m_stats, ops, peak_workers>>
    /\ UNCHANGED outsideManager

\* return results, after the last playlist
BatchReturn(c) ==
    /\ cs[c].pc = "playlists"
    /\ cs[c].playlists = <<>>
    /\ cs' = [cs EXCEPT ![c].pc = "returned"]
    /\ UNCHANGED <<max_workers, executor, executors, shutdown_event, q_tasks,
                   q_queue, q_counter, active_futures, futures, t_pc, t_ex,
                   t_result, attempts, m_stats, ops, peak_workers>>
    /\ UNCHANGED outsideManager

\* The call is over: its caller has the return value or the exception, and
\* the frame, with the results of the futures it has consumed, is gone.
CallReturn(c) ==
    /\ cs[c].pc \in {"returned", "raised"}
    /\ cs' = [cs EXCEPT ![c] = IdleCaller]
    /\ t_result' = [t \in Tasks |-> IF t \in cs[c].seen THEN NoResult
                                    ELSE t_result[t]]
    /\ UNCHANGED <<max_workers, executor, executors, shutdown_event, q_tasks,
                   q_queue, q_counter, active_futures, futures, t_pc, t_ex,
                   attempts, m_stats, ops, peak_workers>>
    /\ UNCHANGED outsideManager

\* A worker thread of executor e takes the next work item: a cancelled future
\* is notified and skipped (set_running_or_notify_cancel); any other runs
\* _execute_download_task up to its search of get_all_tasks() for task_id,
\* which ends it with "Task not found in queue" or goes on to the download.
WorkerTake(e) ==
    /\ e \in 1 .. Len(executors)
    /\ executors[e].queue # <<>>
    /\ Cardinality(RunningOn(e)) < executors[e].max_workers
    /\ LET t == Head(executors[e].queue)
       IN  /\ executors' = [executors EXCEPT ![e].queue = Tail(@)]
           /\ IF futures[t] = "CANCELLED"
              THEN /\ futures' = [futures EXCEPT ![t] = "CANCELLED_AND_NOTIFIED"]
                   /\ t_pc' = [t_pc EXCEPT ![t] = "skipped"]
                   /\ UNCHANGED t_result
              ELSE IF q_tasks[t].status # "none"
              THEN /\ futures' = [futures EXCEPT ![t] = "RUNNING"]
                   /\ t_pc' = [t_pc EXCEPT ![t] = "download"]
                   /\ UNCHANGED t_result
              ELSE /\ futures' = [futures EXCEPT ![t] = "FINISHED"]
                   /\ t_pc' = [t_pc EXCEPT ![t] = "done"]
                   /\ t_result' = [t_result EXCEPT ![t] =
                                      Tagged(MarkFailure(<<"Task not found in queue">>),
                                             t, "notfound")]
    /\ UNCHANGED <<max_workers, executor, shutdown_event, q_tasks, q_queue,
                   q_counter, active_futures, t_ex, attempts, m_stats,
                   cs, ops, peak_workers>>
    /\ UNCHANGED outsideManager

\* _execute_download_task: result = self.download_single(task.url, task.config)
\* comes back, or raises into "except Exception".
TaskDownload(t) ==
    /\ t_pc[t] = "download"
    /\ \/ \E r \in DownloadReturns :
             t_result' = [t_result EXCEPT ![t] =
                             Tagged(r, t, IF r.success THEN "ok" ELSE "failed")]
       \/ \E x \in DownloadRaises :
             t_result' = [t_result EXCEPT ![t] =
                             Tagged(MarkFailure(<<"Task execution error: ", x>>),
                                    t, "raised")]
    /\ attempts' = [attempts EXCEPT ![t] = @ + 1]
    /\ t_pc' = [t_pc EXCEPT ![t] = "complete"]
    /\ UNCHANGED <<max_workers, executor, executors, shutdown_event, q_tasks,
                   q_queue, q_counter, active_futures, futures, t_ex, m_stats,
                   cs, ops, peak_workers>>
    /\ UNCHANGED outsideManager

\* A plausible slip: only a successful result is recorded.
CompleteTaskSuccessOnly(tasks, t, r) ==
    IF tasks[t].status = "none" \/ ~r.success THEN tasks
    ELSE [tasks EXCEPT ![t].status = "COMPLETED", ![t].has_result = TRUE]

\* DownloadQueue.complete_task
CompleteTask(tasks, t, r) ==
    IF tasks[t].status = "none" THEN tasks
    ELSE [tasks EXCEPT ![t].status = IF r.success THEN "COMPLETED" ELSE "FAILED",
                       ![t].has_result = TRUE]

\* A plausible change: a retryable failure with attempts left puts the task
\* back on the queue and downloads again.
TaskCompleteRequeue(t) ==
    /\ t_pc[t] = "complete"
    /\ IF IsRetryableResult(t_result[t].res)
          /\ attempts[t] <= q_tasks[t].cfg.retry_attempts
       THEN /\ q_queue' = Append(q_queue, t)
            /\ t_pc' = [t_pc EXCEPT ![t] = "download"]
            /\ UNCHANGED <<q_tasks, futures>>
       ELSE /\ q_tasks' = CompleteTask(q_tasks, t, t_result[t].res)
            /\ futures' = [futures EXCEPT ![t] = "FINISHED"]
            /\ t_pc' = [t_pc EXCEPT ![t] = "done"]
            /\ UNCHANGED q_queue
    /\ UNCHANGED <<max_workers, executor, executors, shutdown_event,
                   q_counter, active_futures, t_ex, t_result, attempts, m_stats,
                   cs, ops, peak_workers>>
    /\ UNCHANGED outsideManager

\* _execute_download_task: complete_task(task_id, result); return result, which
\* finishes the future.
TaskComplete(t) ==
    /\ t_pc[t] = "complete"
    /\ q_tasks' = CompleteTask(q_tasks, t, t_result[t].res)
    /\ futures' = [futures EXCEPT ![t] = "FINISHED"]
    /\ t_pc' = [t_pc EXCEPT ![t] = "done"]
    /\ UNCHANGED <<max_workers, executor, executors, shutdown_event, q_queue,
                   q_counter, active_futures, t_ex, t_result, attempts, m_stats,
                   cs, ops, peak_workers>>
    /\ UNCHANGED outsideManager

\* Executor e has no work item queued and none running: shutdown(wait=True)
\* on it returns.
Drained(e) == executors[e].queue = <<>> /\ RunningOn(e) = {}

\* set_parallel_workers(count), count one of counts: the new _max_workers and
\* the restart test
SetWorkersWithin(c, counts, limit) ==
    /\ cs[c].pc = "idle"
    /\ ops < limit
    /\ \E count \in counts :
          LET new == ClampWorkers(count)
          IN  /\ max_workers' = new
              /\ peak_workers' = Max(peak_workers, new)
              /\ cs' = [cs EXCEPT ![c] =
                          [IdleCaller EXCEPT !.op = "set_parallel_workers",
                                             !.arg = count,
                                             !.pc = IF executor # 0 /\ max_workers # new
                                                   THEN "sw_restart" ELSE "returned"]]
    /\ ops' = ops + 1
    /\ UNCHANGED <<executor, executors, shutdown_event, q_tasks, q_queue,
                   q_counter, active_futures, futures, t_pc, t_ex, t_result,
                   attempts, m_stats>>
    /\ UNCHANGED outsideManager

SetWorkersOf(c, counts) == SetWorkersWithin(c, counts, MaxOps)

SetWorkers(c) == SetWorkersOf(c, WorkerCounts)

\* _restart_executor: if self._executor: self._executor.shutdown(wait=True),
\* up to the point where shutdown starts to wait
SwShutdownOld(c) ==
    /\ cs[c].pc = "sw_restart"
    /\ IF executor # 0
       THEN /\ executors' = [executors EXCEPT ![executor].shut = TRUE]
            /\ cs' = [cs EXCEPT ![c].ex = executor, ![c].pc = "sw_wait"]
       ELSE /\ cs' = [cs EXCEPT ![c].pc = "sw_create"]
            /\ UNCHANGED executors
    /\ UNCHANGED <<max_workers, executor, shutdown_event, q_tasks, q_queue,
                   q_counter, active_futures, futures, t_pc, t_ex, t_result,
                   attempts, m_stats, ops, peak_workers>>
    /\ UNCHANGED outsideManager

\* _restart_executor: shutdown(wait=True) returns
SwWait(c) ==
    /\ cs[c].pc = "sw_wait"
    /\ Drained(cs[c].ex)
    /\ cs' = [cs EXCEPT ![c].pc = "sw_create"]
    /\ UNCHANGED <<max_workers, executor, executors, shutdown_event, q_tasks,
                   q_queue, q_counter, active_futures, futures, t_pc, t_ex,
                   t_result, attempts, m_stats, ops, peak_workers>>
    /\ UNCHANGED outsideManager

\* _restart_executor: self._executor = ThreadPoolExecutor(self._max_workers)
SwCreate(c) ==
    /\ cs[c].pc = "sw_create"
    /\ Len(executors) < MaxExecutors
    /\ executors' = Append(executors,
                           [max_workers |-> max_workers, shut |-> FALSE,
                            queue |-> <<>>])
    /\ executor' = Len(executors) + 1
    /\ cs' = [cs EXCEPT ![c].pc = "returned"]
    /\ UNCHANGED <<max_workers, shutdown_event, q_tasks, q_queue, q_counter,
                   active_futures, futures, t_pc, t_ex, t_result, attempts,
                   m_stats, ops, peak_workers>>
    /\ UNCHANGED outsideManager

\* A plausible slip: a running future is marked cancelled as well.
CancelFutureRunning(st) == IF st \in {"PENDING", "RUNNING"} THEN "CANCELLED" ELSE st

\* Future.cancel(): the new state, and whether it returns True
CancelFuture(st) == IF st = "PENDING" THEN "CANCELLED" ELSE st
CancelReturns(st) == st \in {"PENDING", "CANCELLED", "CANCELLED_AND_NOTIFIED"}

\* shutdown(wait): the event is set, every future of _active_futures is
\* cancelled and the map cleared.  The call notes (pending, running) which
\* tasks had not started and which were executing when it was made.
ShCancel(c) ==
    /\ cs[c].pc = "idle"
    /\ ops < MaxOps
    /\ \E wait \in BOOLEAN :
          cs' = [cs EXCEPT ![c] = [IdleCaller EXCEPT !.op = "shutdown",
                                                     !.wait = wait,
                                                     !.pending = NotStarted,
                                                     !.running = Executing,
                                                     !.pc = "sh_executor"]]
    /\ shutdown_event' = TRUE
    /\ futures' = [t \in Tasks |-> IF t \in active_futures
                                   THEN CancelFuture(futures[t]) ELSE futures[t]]
    /\ active_futures' = {}
    /\ ops' = ops + 1
    /\ UNCHANGED <<max_workers, executor, executors, q_tasks, q_queue, q_counter,
                   t_pc, t_ex, t_result, attempts, m_stats, peak_workers>>
    /\ UNCHANGED outsideManager

\* shutdown: if self._executor: self._executor.shutdown(wait=wait), up to the
\* point where it starts to wait
ShExecutor(c) ==
    /\ cs[c].pc = "sh_executor"
    /\ IF executor # 0
       THEN /\ executors' = [executors EXCEPT ![executor].shut = TRUE]
            /\ cs' = [cs EXCEPT ![c].ex = executor,
                                ![c].pc = IF cs[c].wait THEN "sh_wait" ELSE "sh_unset"]
       ELSE /\ cs' = [cs EXCEPT ![c].pc = "sh_purge"]
            /\ UNCHANGED executors
    /\ UNCHANGED <<max_workers, executor, shutdown_event, q_tasks, q_queue,
                   q_counter, active_futures, futures, t_pc, t_ex, t_result,
                   attempts, m_stats, ops, peak_workers>>
    /\ UNCHANGED outsideManager

\* shutdown: executor.shutdown(wait=True) returns
ShWait(c) ==
    /\ cs[c].pc = "sh_wait"
    /\ Drained(cs[c].ex)
    /\ cs' = [cs EXCEPT ![c].pc = "sh_unset"]
    /\ UNCHANGED <<max_workers, executor, executors, shutdown_event, q_tasks,
                   q_queue, q_counter, active_futures, futures, t_pc, t_ex,
                   t_result, attempts, m_stats, ops, peak_workers>>
    /\ UNCHANGED outsideManager

\* A plausible slip: only the tasks that finished well are removed.
ClearCompletedTasksFinishedOnly(tasks) ==
    [t \in Tasks |-> IF tasks[t].status = "COMPLETED" THEN NoTask ELSE tasks[t]]

\* DownloadQueue.clear_completed_tasks
ClearCompletedTasks(tasks) ==
    [t \in Tasks |-> IF tasks[t].status \in {"COMPLETED", "FAILED", "CANCELLED"}
                     THEN NoTask ELSE tasks[t]]

\* shutdown: self._executor = None (if there was one), clear_completed_tasks()
ShFinish(c) ==
    /\ cs[c].pc \in {"sh_unset", "sh_purge"}
    /\ executor' = IF cs[c].pc = "sh_unset" THEN 0 ELSE executor
    /\ q_tasks' = ClearCompletedTasks(q_tasks)
    /\ cs' = [cs EXCEPT ![c].pc = "returned"]
    /\ UNCHANGED <<max_workers, executors, shutdown_event, q_queue, q_counter,
                   active_futures, futures, t_pc, t_ex, t_result, attempts,
                   m_stats, ops, peak_workers>>
    /\ UNCHANGED outsideManager

\* cancel_task(task_id)
CancelTask(c) ==
    /\ cs[c].pc = "idle"
    /\ ops < MaxOps
    /\ \E t \in Tasks :
          /\ t <= q_counter
          /\ LET cancelled == t \in active_futures /\ CancelReturns(futures[t])
             IN  /\ futures' = IF t \in active_futures
                               THEN [futures EXCEPT ![t] = CancelFuture(@)]
                               ELSE futures
                 /\ active_futures' = IF cancelled THEN active_futures \ {t}
                                      ELSE active_futures
                 /\ cs' = [cs EXCEPT ![c] = [IdleCaller EXCEPT !.op = "cancel_task",
                                                               !.arg = t,
                                                               !.flag = cancelled,
                                                               !.pc = "returned"]]
    /\ ops' = ops + 1
    /\ UNCHANGED <<max_workers, executor, executors, shutdown_event, q_tasks,
                   q_queue, q_counter, t_pc, t_ex, t_result, attempts, m_stats,
                   peak_workers>>
    /\ UNCHANGED outsideManager

\* DownloadQueue.add_task(url, config), called on the queue by itself
QAddTask ==
    /\ q_counter < MaxTasks
    /\ \E cfg \in BatchConfigs :
          q_tasks' = [q_tasks EXCEPT ![q_counter + 1] =
                         [status |-> "QUEUED", url |-> UrlOf(1), cfg |-> cfg,
                          has_result |-> FALSE]]
    /\ q_counter' = q_counter + 1
    /\ q_queue' = Append(q_queue, q_counter + 1)
    /\ UNCHANGED <<max_workers, executor, executors, shutdown_event,
                   active_futures, futures, t_pc, t_ex, t_result, attempts,
                   m_stats, cs, ops, peak_workers>>
    /\ UNCHANGED outsideManager

\* DownloadQueue.get_task(): the head of _queue is taken and marked
\* IN_PROGRESS (on an empty queue the call changes nothing).  _queue holds the
\* task objects themselves: a task that clear_completed_tasks removed from
\* _tasks is still handed out, and marking it changes nothing in _tasks.
QGetTask ==
    /\ q_queue # <<>>
    /\ q_tasks' = IF q_tasks[Head(q_queue)].status = "none" THEN q_tasks
                  ELSE [q_tasks EXCEPT ![Head(q_queue)].status = "IN_PROGRESS"]
    /\ q_queue' = Tail(q_queue)
    /\ UNCHANGED <<max_workers, executor, executors, shutdown_event, q_counter,
                   active_futures, futures, t_pc, t_ex, t_result, attempts,
                   m_stats, cs, ops, peak_workers>>
    /\ UNCHANGED outsideManager

\* DownloadQueue.complete_task(task_id, result), for any id handed out
QCompleteTask ==
    /\ \E t \in 1 .. q_counter, r \in DownloadReturns :
          q_tasks' = CompleteTask(q_tasks, t, r)
    /\ UNCHANGED <<max_workers, executor, executors, shutdown_event, q_queue,
                   q_counter, active_futures, futures, t_pc, t_ex, t_result,
                   attempts, m_stats, cs, ops, peak_workers>>
    /\ UNCHANGED outsideManager

\* DownloadQueue.clear_completed_tasks(), called on the queue by itself
QClearCompletedTasks ==
    /\ q_tasks' = ClearCompletedTasks(q_tasks)
    /\ UNCHANGED <<max_workers, executor, executors, shutdown_event, q_queue,
                   q_counter, active_futures, futures, t_pc, t_ex, t_result,
                   attempts, m_stats, cs, ops, peak_workers>>
    /\ UNCHANGED outsideManager

\* The DownloadQueue under calls of its operations in any order.
QueueNext ==
    \/ QAddTask
    \/ QGetTask
    \/ QCompleteTask
    \/ QClearCompletedTasks

\* The thread that submits batches when only one does.
BatchCallers == {"c1"}

\* One thread's batches and the pool's worker threads.
BatchNext ==
    \/ \E c \in BatchCallers : CallBatch(c)
    \/ \E c \in BatchCallers : ParEnsureCheck(c)
    \/ \E c \in BatchCallers : ParEnsureGet(c)
    \/ \E c \in BatchCallers : ParSubmit(c)
    \/ \E c \in BatchCallers : ParRegister(c)
    \/ \E c \in BatchCallers : ParCollect(c)
    \/ \E c \in BatchCallers : ParReturn(c)
    \/ \E c \in BatchCallers : SeqDownload(c)
    \/ \E c \in BatchCallers : SeqReturn(c)
    \/ \E c \in BatchCallers : CallReturn(c)
    \/ \E e \in Executors : WorkerTake(e)
    \/ \E t \in Tasks : TaskDownload(t)
    \/ \E t \in Tasks : TaskComplete(t)

\* Batches of up to PoolBatch urls on a manager built with the default or a
\* chosen worker count.
PoolBatch == 3
PoolLists == {[k \in 1 .. n |-> UrlOf(k)] : n \in 1 .. PoolBatch}

CallPoolBatch(c) == CallBatchOf(c, PoolLists)

PoolNext ==
    \/ \E c \in BatchCallers : CallPoolBatch(c)
    \/ \E c \in BatchCallers : ParEnsureCheck(c)
    \/ \E c \in BatchCallers : ParEnsureGet(c)
    \/ \E c \in BatchCallers : ParSubmit(c)
    \/ \E c \in BatchCallers : ParRegister(c)
    \/ \E c \in BatchCallers : ParCollect(c)
    \/ \E c \in BatchCallers : ParReturn(c)
    \/ \E c \in BatchCallers : SeqDownload(c)
    \/ \E c \in BatchCallers : SeqReturn(c)
    \/ \E c \in BatchCallers : CallReturn(c)
    \/ \E e \in Executors : WorkerTake(e)
    \/ \E t \in Tasks : TaskDownload(t)
    \/ \E t \in Tasks : TaskComplete(t)

\* Request lists that mix single videos and playlists: position k holds the
\* k-th single-video url or the k-th playlist url.
MixedLists ==
    UNION {{[k \in 1 .. n |-> IF kinds[k] THEN PlaylistOf(k) ELSE UrlOf(k)] :
                kinds \in [1 .. n -> BOOLEAN]} : n \in 1 .. PoolBatch}

CallMixedBatch(c) == CallBatchOf(c, MixedLists)

\* download_batch on mixed lists, by a manager that downloads sequentially.
MixedNext ==
    \/ \E c \in BatchCallers : CallMixedBatch(c)
    \/ \E c \in BatchCallers : SeqDownload(c)
    \/ \E c \in BatchCallers : SeqReturn(c)
    \/ \E c \in BatchCallers : BatchPlaylist(c)
    \/ \E c \in BatchCallers : BatchReturn(c)
    \/ \E c \in BatchCallers : CallReturn(c)

\* Every call on the manager, from any caller thread.
Next ==
    \/ \E c \in Callers : CallBatch(c)
    \/ \E c \in Callers : ParEnsureCheck(c)
    \/ \E c \in Callers : ParEnsureGet(c)
    \/ \E c \in Callers : ParSubmit(c)
    \/ \E c \in Callers : ParRegister(c)
    \/ \E c \in Callers : ParCollect(c)
    \/ \E c \in Callers : ParReturn(c)
    \/ \E c \in Callers : SeqDownload(c)
    \/ \E c \in Callers : SeqReturn(c)
    \/ \E c \in Callers : CallReturn(c)
    \/ \E e \in Executors : WorkerTake(e)
    \/ \E t \in Tasks : TaskDownload(t)
    \/ \E t \in Tasks : TaskComplete(t)
    \/ \E c \in Callers : SetWorkers(c)
    \/ \E c \in Callers : SwShutdownOld(c)
    \/ \E c \in Callers : SwWait(c)
    \/ \E c \in Callers : SwCreate(c)
    \/ \E c \in Callers : ShCancel(c)
    \/ \E c \in Callers : ShExecutor(c)
    \/ \E c \in Callers : ShWait(c)
    \/ \E c \in Callers : ShFinish(c)
    \/ \E c \in Callers : CancelTask(c)

\* The thread that resizes, cancels and shuts down while another submits.
ControlCallers == {"c2"}

\* One thread's batches, the pool's worker threads, and a second thread that
\* calls set_parallel_workers, shutdown and cancel_task meanwhile.
ControlNext ==
    \/ \E c \in BatchCallers : CallBatch(c)
    \/ \E c \in BatchCallers : ParEnsureCheck(c)
    \/ \E c \in BatchCallers : ParEnsureGet(c)
    \/ \E c \in BatchCallers : ParSubmit(c)
    \/ \E c \in BatchCallers : ParRegister(c)
    \/ \E c \in BatchCallers : ParCollect(c)
    \/ \E c \in BatchCallers : ParReturn(c)
    \/ \E c \in BatchCallers : SeqDownload(c)
    \/ \E c \in BatchCallers : SeqReturn(c)
    \/ \E c \in Callers : CallReturn(c)
    \/ \E e \in Executors : WorkerTake(e)
    \/ \E t \in Tasks : TaskDownload(t)
    \/ \E t \in Tasks : TaskComplete(t)
    \/ \E c \in ControlCallers : SetWorkers(c)
    \/ \E c \in ControlCallers : SwShutdownOld(c)
    \/ \E c \in ControlCallers : SwWait(c)
    \/ \E c \in ControlCallers : SwCreate(c)
    \/ \E c \in ControlCallers : ShCancel(c)
    \/ \E c \in ControlCallers : ShExecutor(c)
    \/ \E c \in ControlCallers : ShWait(c)
    \/ \E c \in ControlCallers : ShFinish(c)
    \/ \E c \in ControlCallers : CancelTask(c)

(***************************************************************************)
(*                          The specifications                             *)
(***************************************************************************)

\* The wrapper alone; no download is running.
RetrySpecInit == RetryInit /\ DownloadIdle /\ ManagerIdle

RetrySpec == RetrySpecInit /\ [][RetryNext]_vars

HandlerSpecInit == HandlerInit /\ DownloadIdle /\ ManagerIdle

HandlerSpec == HandlerSpecInit /\ [][HandlerNext]_vars

\* Direct calls of the ProgressReporter's methods in any order, as its tests
\* make them: up to MaxStarts start_download calls.
MaxStarts == 2

\* reporter.start_download(url, title, total_bytes)
RStartDownload ==
    /\ p_stats.total_files < MaxStarts
    /\ \E u \in Urls, size \in EstimatedSizes \cup {0} :
          /\ p_active' = StartDownloadActive(p_active, u, size)
          /\ p_stats' = StartDownloadStats(p_stats, size)
    /\ UNCHANGED <<d_pc, callVars, d_rs, d_continuedl, d_result, d_exc, d_events,
                   d_ev, d_done, d_loaded, resumeVars, p_completed, p_last_update,
                   p_display, clock, m_resumed, cur_downloads>>
    /\ UNCHANGED outsideDownload

\* reporter.update_download(url, downloaded_bytes, total_bytes, speed, eta)
RUpdateDownload ==
    /\ \E u \in Urls, ev \in ProgressEvents :
          /\ p_active' = UpdateDownloadActive(p_active, u, ev.d, ev.t)
          /\ p_stats' = UpdateDownloadStats(p_stats, p_active, u, ev.d)
          /\ p_display' = UpdateDownloadDisplay(p_display, p_active, u,
                                                p_last_update, clock)
          /\ p_last_update' = UpdateDownloadLast(p_active, u, p_last_update, clock)
    /\ UNCHANGED <<d_pc, callVars, d_rs, d_continuedl, d_result, d_exc, d_events,
                   d_ev, d_done, d_loaded, resumeVars, p_completed, clock, m_resumed,
                   cur_downloads>>
    /\ UNCHANGED outsideDownload

\* reporter.complete_download(url, success, final_size)
RCompleteDownload ==
    /\ \E u \in Urls, success \in BOOLEAN, final_size \in FinalSizes \cup {0} :
          /\ p_active' = CompleteDownloadActive(p_active, u)
          /\ p_completed' = CompleteDownloadCompleted(p_completed, p_active, u,
                                                      success, final_size)
          /\ p_stats' = CompleteDownloadStats(p_stats, p_active, u, success)
          /\ p_display' = CompleteDownloadDisplay(p_display, p_active, u, clock)
    /\ UNCHANGED <<d_pc, callVars, d_rs, d_continuedl, d_result, d_exc, d_events,
                   d_ev, d_done, d_loaded, resumeVars, p_last_update, clock,
                   m_resumed, cur_downloads>>
    /\ UNCHANGED outsideDownload

\* Time passes between two calls: TickMs at a time, MaxTicks times.
TickMs == 250
MaxTicks == 2

Tick ==
    /\ clock < StartMs + MaxTicks * TickMs
    /\ clock' = clock + TickMs
    /\ UNCHANGED <<d_pc, callVars, d_rs, d_continuedl, d_result, d_exc, d_events,
                   d_ev, d_done, d_loaded, resumeVars, p_active, p_completed,
                   p_stats, p_last_update, p_display, m_resumed, cur_downloads>>
    /\ UNCHANGED outsideDownload

ReporterNext ==
    \/ RStartDownload
    \/ RUpdateDownload
    \/ RCompleteDownload
    \/ Tick

\* A ProgressReporter as constructed.
ReporterSpecInit == DownloadIdle /\ RetryIdle /\ ManagerIdle

ReporterSpec == ReporterSpecInit /\ [][ReporterNext]_vars

\* classify_yt_dlp_error on its own.
ClassifySpecInit == ClassifyInit /\ DownloadIdle /\ ManagerIdle

ClassifySpec == ClassifySpecInit /\ [][ClassifyNext]_vars

\* download_single on one worker thread, other workers around it; the retry
\* wrapper is not in use (the manager never applies it).
DownloadSpecInit == DownloadInit /\ RetryIdle /\ ManagerIdle

DownloadSpec == DownloadSpecInit /\ [][DownloadNext]_vars

SingleSpecInit == DownloadInit /\ RetryIdle /\ ManagerIdle

SingleSpec == SingleSpecInit /\ [][SingleNext]_vars

\* The manager under the batches of one caller thread: no resize, shutdown,
\* cancellation or second batch while one runs.
BatchSpecInit == ManagerInit /\ RetryIdle /\ DownloadIdle

BatchSpec == BatchSpecInit /\ [][BatchNext]_vars

PoolSpecInit ==
    ManagerConstructed(WorkerCounts \cup {DefaultMaxWorkers}) /\ RetryIdle /\ DownloadIdle

PoolSpec == PoolSpecInit /\ [][PoolNext]_vars

\* DownloadManager(max_workers=1)
MixedSpecInit == ManagerConstructed({1}) /\ RetryIdle /\ DownloadIdle

MixedSpec == MixedSpecInit /\ [][MixedNext]_vars

\* The manager under every call, from concurrent caller threads.
Init == ManagerInit /\ RetryIdle /\ DownloadIdle

Spec == Init /\ [][Next]_vars

\* Worker counts of any sign and size, the limit of 10 and its neighbour among
\* them.
AnyCounts == {-1, 0, 2, 10, 11}

SetAnyWorkers(c) == SetWorkersOf(c, AnyCounts)

\* One thread's batches and the pool's worker threads, and a second thread
\* that calls set_parallel_workers with any count meanwhile.
WorkersNext ==
    \/ \E c \in BatchCallers : CallBatch(c)
    \/ \E c \in BatchCallers : ParEnsureCheck(c)
    \/ \E c \in BatchCallers : ParEnsureGet(c)
    \/ \E c \in BatchCallers : ParSubmit(c)
    \/ \E c \in BatchCallers : ParRegister(c)
    \/ \E c \in BatchCallers : ParCollect(c)
    \/ \E c \in BatchCallers : ParReturn(c)
    \/ \E c \in BatchCallers : SeqDownload(c)
    \/ \E c \in BatchCallers : SeqReturn(c)
    \/ \E c \in Callers : CallReturn(c)
    \/ \E e \in Executors : WorkerTake(e)
    \/ \E t \in Tasks : TaskDownload(t)
    \/ \E t \in Tasks : TaskComplete(t)
    \/ \E c \in ControlCallers : SetAnyWorkers(c)
    \/ \E c \in ControlCallers : SwShutdownOld(c)
    \/ \E c \in ControlCallers : SwWait(c)
    \/ \E c \in ControlCallers : SwCreate(c)

\* A manager constructed with any worker count.
WorkersSpecInit == ManagerConstructed(AnyCounts) /\ RetryIdle /\ DownloadIdle

WorkersSpec == WorkersSpecInit /\ [][WorkersNext]_vars

\* One thread's batches, one after another, and a second thread that resizes
\* the pool meanwhile: up to ResizeOps calls in all.
ResizeOps == 3

CallResizeBatch(c) == CallBatchWithin(c, UrlLists, ResizeOps)

\* Worker counts with two pool sizes above 1 among them.
ResizeCounts == {1, 2, 3}

SetResizeWorkers(c) == SetWorkersWithin(c, ResizeCounts, ResizeOps)

ResizeNext ==
    \/ \E c \in BatchCallers : CallResizeBatch(c)
    \/ \E c \in BatchCallers : ParEnsureCheck(c)
    \/ \E c \in BatchCallers : ParEnsureGet(c)
    \/ \E c \in BatchCallers : ParSubmit(c)
    \/ \E c \in BatchCallers : ParRegister(c)
    \/ \E c \in BatchCallers : ParCollect(c)
    \/ \E c \in BatchCallers : ParReturn(c)
    \/ \E c \in BatchCallers : SeqDownload(c)
    \/ \E c \in BatchCallers : SeqReturn(c)
    \/ \E c \in Callers : CallReturn(c)
    \/ \E e \in Executors : WorkerTake(e)
    \/ \E t \in Tasks : TaskDownload(t)
    \/ \E t \in Tasks : TaskComplete(t)
    \/ \E c \in ControlCallers : SetResizeWorkers(c)
    \/ \E c \in ControlCallers : SwShutdownOld(c)
    \/ \E c \in ControlCallers : SwWait(c)
    \/ \E c \in ControlCallers : SwCreate(c)

ResizeSpecInit == ManagerConstructed(ResizeCounts) /\ RetryIdle /\ DownloadIdle

ResizeSpec == ResizeSpecInit /\ [][ResizeNext]_vars

\* A DownloadQueue on its own, as constructed.
QueueSpecInit == ManagerIdle /\ RetryIdle /\ DownloadIdle

QueueSpec == QueueSpecInit /\ [][QueueNext]_vars

\* The manager under one thread's batches and another thread's control calls.
ControlSpecInit == ManagerInit /\ RetryIdle /\ DownloadIdle

ControlSpec == ControlSpecInit /\ [][ControlNext]_vars


(***************************************************************************)
(*                    Claims about the retry loop                          *)
(***************************************************************************)

\* C7: a content-permanent error (geo-restricted, age-restricted, private or
\* deleted) is never retried: handle_error returns false for it at whatever
\* retry_count it is handled, the wrapper raises it without sleeping or calling
\* the function again, and a function that raises it at once was invoked
\* exactly once.
C7_PermanentNeverRetried ==
    IsPermanentContentError(w_err) =>
        \/ w_pc = "caught"
        \/ /\ w_pc = "raised"
           /\ w_verdict = FALSE
           /\ w_delay = 0
           /\ calls = retry_count + 1
           /\ (retry_count = 0 => calls = 1)

\* C7 witness: a permanent error raised by the first call, with retries left.
C7_Witness ==
    /\ w_pc = "raised"
    /\ IsPermanentContentError(w_err)
    /\ calls = 1
    /\ w_max >= 2

\* C8: the wrapped function is invoked at most max_retries + 1 times, and once
\* it has been invoked that often the wrapper is returning or raising, not
\* waiting for another attempt.
C8_AttemptsBounded ==
    /\ calls <= w_max + 1
    /\ (calls > 0 /\ calls = w_max + 1) => w_pc \in {"caught", "returned", "raised"}

\* C8 witness: every attempt used up on an error the handler would still retry.
C8_Witness ==
    /\ w_pc = "raised"
    /\ w_max = 2
    /\ calls = 3
    /\ w_verdict = TRUE

\* C9: a function that raised only transient network errors (connection,
\* timeout) on its first k attempts, k <= max_retries, is attempted again: the
\* wrapper gives up only once the errors outnumber max_retries, and when the
\* function then succeeds the wrapper has slept once before each re-attempt.
C9_RetryThenSucceed ==
    /\ (w_pc = "raised" /\ w_onlyNet) => calls > w_max
    /\ (w_pc = "returned" /\ w_onlyNet) => sleeps = calls - 1


(***************************************************************************)
(*            Claims about download_single and the ResumeHandler           *)
(***************************************************************************)

Contains(msg, text) == \E i \in 1 .. Len(msg) : msg[i] = text

C5_LoadReturnsIffValid ==
    /\ d_loaded.called => (d_loaded.ret # NoRecord <=> d_loaded.sound)
    /\ d_pc \in {"load1_clear", "cr_load_clear"} => ENABLED DsClear

\* C6: once the resume check of download_single(url, B) is over, the call holds
\* no resume state saved under a configuration whose quality, format or output
\* directory differs from B's.
C6_NoStaleResume ==
    (d_pc = "extract" /\ d_rs # NoRecord) => d_rs.hash = ConfigHash(d_cfg)


(***************************************************************************)
(*                  Claims about the DownloadManager                       *)
(***************************************************************************)

\* C1: under any interleaving of parallel batches, set_parallel_workers and
\* shutdown calls, no more download tasks are executing their fetch at once
\* than the worker count the manager is configured with -- here even the
\* largest count it has been configured with so far.
C1_BoundedConcurrency == Cardinality(Fetching) <= peak_workers

\* C2: a parallel batch that returns hands back one result per submitted url,
\* the k-th being the result of the k-th submitted task, whatever the order in
\* which the futures completed.
C2_ResultsInSubmissionOrder ==
    \A c \in Callers :
        (cs[c].pc = "returned" /\ cs[c].op = "parallel") =>
            /\ Len(cs[c].f2i) = Len(cs[c].urls)
            /\ Len(cs[c].ret) = Len(cs[c].urls)
            /\ \A k \in 1 .. Len(cs[c].ret) : cs[c].ret[k].of = cs[c].f2i[k]

\* C2 witness: a parallel batch of two has returned after its second task
\* was collected first.
C2_Witness ==
    \E c \in Callers :
        /\ cs[c].pc = "returned"
        /\ cs[c].op = "parallel"
        /\ Len(cs[c].urls) = 2
        /\ cs[c].results[1][1] = 1
        /\ cs[c].results[2][1] = 0

\* The result a batch reports for a download that did `out`.
ReportsOutcome(r) ==
    /\ r.out \in {"ok", "failed", "raised"}
    /\ r.out = "ok" <=> r.res.success
    /\ r.out # "ok" => /\ r.res.status = "FAILED"
                       /\ r.res.error # <<>>
    /\ r.out = "raised" => \E x \in DownloadRaises : Contains(r.res.error, x)

Cancelled == {"CANCELLED", "CANCELLED_AND_NOTIFIED"}

\* The step in which caller c makes its cancel_task call.
CancelStep(c) ==
    /\ cs[c].pc = "idle"
    /\ cs'[c].pc = "returned"
    /\ cs'[c].op = "cancel_task"

\* C11: cancel_task(id) returns true only for a task no worker has started,
\* and a cancelled task's download is never invoked; when it returns false
\* (the task is running, finished or not in the handle map) the call changes
\* nothing of the task, its future or the handle map.
C11_CancelOnlyUnstarted ==
    [][/\ \A c \in Callers : CancelStep(c) =>
             LET t == cs'[c].arg
             IN  IF cs'[c].flag
                 THEN /\ t_pc[t] = "queued"
                      /\ attempts[t] = 0
                      /\ futures'[t] \in Cancelled
                 ELSE /\ futures' = futures
                      /\ active_futures' = active_futures
                      /\ t_pc' = t_pc
                      /\ q_tasks' = q_tasks
       /\ \A t \in Tasks : futures'[t] \in Cancelled =>
             /\ attempts'[t] = 0
             /\ t_pc'[t] \in {"queued", "skipped"}]_vars

\* cancel_task returned true for a queued task and a worker has since skipped it.
C11_Witness ==
    \E c \in Callers :
        /\ cs[c].pc = "returned"
        /\ cs[c].op = "cancel_task"
        /\ cs[c].flag
        /\ t_pc[cs[c].arg] = "skipped"
        /\ attempts[cs[c].arg] = 0

\* The step in which shutdown(wait) returns to caller c.
ShutdownReturns(c, wait) ==
    /\ cs[c].pc \in {"sh_unset", "sh_purge"}
    /\ cs'[c].pc = "returned"
    /\ cs[c].wait = wait

\* C12: when shutdown(wait=True) returns, every task that was executing when
\* it was called has finished, no task is executing, the manager holds no
\* executor and the handle map is empty.
C12_ShutdownWaits ==
    [][\A c \in Callers : ShutdownReturns(c, TRUE) =>
          /\ \A t \in cs[c].running : t_pc'[t] = "done"
          /\ Executing' = {}
          /\ executor' = 0
          /\ active_futures' = {}]_vars

\* C13: shutdown(wait=False): from the call on, every task that had not
\* started when it was called is cancelled and never starts, a task that was
\* executing has its result recorded in the queue when it finishes, and when
\* the call returns the shutdown flag is set and the handle map is empty.
C13_ShutdownNoWait ==
    [][\A c \in Callers :
          /\ (cs'[c].op = "shutdown" /\ ~cs'[c].wait) =>
                /\ \A t \in cs'[c].pending :
                      /\ futures'[t] \in Cancelled
                      /\ t_pc'[t] \in {"queued", "skipped"}
                /\ \A t \in cs'[c].running :
                      (t_pc[t] = "complete" /\ t_pc'[t] = "done") =>
                         q_tasks'[t].has_result
          /\ ShutdownReturns(c, FALSE) =>
                /\ shutdown_event'
                /\ active_futures' = {}]_vars


(***************************************************************************)
(*                    Claims about the order of a batch                    *)
(***************************************************************************)

Started == {"download", "complete", "done"}

\* C15: with a parallelism of 1 the tasks of a batch run one after another in
\* submission order: a sequential batch has attempted exactly its first i
\* urls, in order, and on a pool of one worker a task has started only if
\* every task submitted to that pool before it is finished (or was cancelled
\* and skipped).
C15_FifoWithOneWorker ==
    /\ \A c \in Callers :
          cs[c].op = "sequential" =>
             /\ Len(cs[c].results) = cs[c].i
             /\ \A k \in 1 .. Len(cs[c].results) : cs[c].results[k].of = k
    /\ \A e \in 1 .. Len(executors) :
          executors[e].max_workers = 1 =>
             \A t1, t2 \in Tasks :
                (t1 < t2 /\ t_ex[t1] = e /\ t_ex[t2] = e /\ t_pc[t2] \in Started) =>
                    t_pc[t1] \in {"done", "skipped"}

\* Two tasks on a pool of one worker: the first is finished, the second runs.
C15_Witness ==
    \E e \in 1 .. Len(executors) :
        /\ executors[e].max_workers = 1
        /\ \E t1, t2 \in Tasks :
              /\ t1 < t2
              /\ t_ex[t1] = e
              /\ t_ex[t2] = e
              /\ t_pc[t1] = "done"
              /\ t_pc[t2] = "download"


(***************************************************************************)
(*                     Claims about the DownloadQueue                      *)
(***************************************************************************)

Terminal == {"COMPLETED", "FAILED", "CANCELLED"}

\* Position of a status along QUEUED -> IN_PROGRESS -> terminal.
StatusRank(st) ==
    IF st = "QUEUED" THEN 1 ELSE IF st = "IN_PROGRESS" THEN 2 ELSE 3

\* C16: under any sequence of add_task, get_task and complete_task a task's
\* status only moves forward along QUEUED -> IN_PROGRESS -> {COMPLETED,
\* FAILED, CANCELLED}: a terminal status is never left for QUEUED or
\* IN_PROGRESS nor changed into another terminal status, the FAILED -> QUEUED
\* retry edge excepted.
C16_StatusMonotonic ==
    [][\A t \in Tasks :
          LET was == q_tasks[t].status
              now == q_tasks'[t].status
          IN  (was # "none" /\ now # "none"
                 /\ ~(was = "FAILED" /\ now = "QUEUED")) =>
                 /\ StatusRank(now) >= StatusRank(was)
                 /\ was \in Terminal => now = was]_vars


\* ------------------------------------------------------------------------
\* C17.  During download_batch with config.max_parallel_downloads = P, at
\* most min(P, 10) of its downloads execute at the same time, whatever
\* worker count the manager was constructed with.
C17_PoolSizedFromConfig ==
    \A c \in Callers :
        cs[c].op \in {"parallel", "sequential"} /\ cs[c].pc # "returned" =>
            Cardinality(Executing) <= Min(cs[c].cfg.max_parallel_downloads, 10)


\* ------------------------------------------------------------------------
\* C18.  download_batch returns its results in request order: the results of
\* request i come before the results of request j whenever i < j, also when
\* the list interleaves single videos and playlists.
RequestPos(c, k) ==
    LET r == cs[c].ret[k]
    IN  IF r.out = "playlist" THEN r.of
        ELSE IF cs[c].op = "parallel" THEN q_tasks[r.of].url[2]
        ELSE cs[c].urls[r.of][2]

C18_ResultsInRequestOrder ==
    \A c \in Callers :
        (cs[c].pc = "returned" /\ cs[c].request # <<>>) =>
            \A j, k \in 1 .. Len(cs[c].ret) :
                j < k => RequestPos(c, j) <= RequestPos(c, k)


\* ------------------------------------------------------------------------
\* C19.  When download_single has a successful result to return for a url,
\* the resume store holds no checkpoint for that url, whatever progress
\* events the fetcher emitted and whatever the store held before the call.
C19_NoCheckpointAfterSuccess ==
    (d_pc = "returned" /\ d_result.success) => r_store[d_url] = NoRecord


\* ------------------------------------------------------------------------
\* C20.  For a rate-limit error that carries a retry_after value r, the delay
\* get_retry_delay returns is exactly r seconds, whatever the retry count:
\* no exponential term and no jitter.
C20_RateLimitDelayIsRetryAfter ==
    (w_pc = "sleep" /\ w_err.cls = "RateLimitError" /\ w_err.retry_after # NoRetryAfter) =>
        w_delay = 1000 * w_err.retry_after


\* ------------------------------------------------------------------------
\* C21.  For an error without a retry_after, the delay without its jitter is
\* min(base_delay * 2^retry_count, max_delay), so it never decreases as
\* retry_count grows, and the delay with jitter is never above
\* max_delay * (1 + jitter_factor).
NoJitter(rc, e) ==
    CHOOSE d \in GetRetryDelay(rc, e) : \A x \in GetRetryDelay(rc, e) : d <= x

HasRetryAfter(e) == e.cls = "RateLimitError" /\ e.retry_after # NoRetryAfter

C21_BackoffCappedAndMonotonic ==
    (w_pc = "delayed" /\ ~HasRetryAfter(w_err)) =>
        /\ NoJitter(retry_count, w_err) = Min(BaseDelayMs * Pow2(retry_count), MaxDelayMs)
        /\ NoJitter(retry_count + 1, w_err) >= NoJitter(retry_count, w_err)
        /\ w_delay >= NoJitter(retry_count, w_err)
        /\ 100 * w_delay <= MaxDelayMs * (100 + JitterPercent)

\* C21 witness: a delay at the cap, with jitter, for a retry count whose
\* uncapped delay would be 128 s.
C21_Witness ==
    /\ w_pc = "delayed"
    /\ ~HasRetryAfter(w_err)
    /\ retry_count = 7
    /\ w_delay > MaxDelayMs


\* ------------------------------------------------------------------------
\* C22.  handle_error returns true for a rate-limit error exactly when
\* retry_count < max_retries, whatever its message says and whether or not it
\* carries a retry_after.
C22_RateLimitRetriedWhileAttemptsRemain ==
    (w_pc = "handled" /\ w_err.cls = "RateLimitError") =>
        (w_verdict <=> retry_count < HandlerMaxRetries)

\* C22 witness: a rate-limit error with an empty message and no retry_after is
\* to be retried at the last retry count below the maximum.
C22_Witness ==
    /\ w_pc = "handled"
    /\ w_err.cls = "RateLimitError"
    /\ w_err.msg = {}
    /\ w_err.retry_after = NoRetryAfter
    /\ retry_count = HandlerMaxRetries - 1
    /\ w_verdict

\* ------------------------------------------------------------------------
\* C23.  handle_error returns true for a network error that is not a
\* rate-limit error exactly when retry_count < max_retries and its message
\* names a timeout, a connection, the network or dns.
TransientWords == {"timeout", "connection", "network", "dns"}

C23_NetworkRetriedOnlyIfTransient ==
    (w_pc = "handled" /\ w_err.cls = "NetworkError") =>
        (w_verdict <=> (retry_count < HandlerMaxRetries /\ w_err.msg \cap TransientWords # {}))

\* C23 witness: a network error whose message names none of the words is
\* refused at retry count 0.
C23_Witness ==
    /\ w_pc = "handled"
    /\ w_err.cls = "NetworkError"
    /\ w_err.msg = {"unavailable"}
    /\ retry_count = 0
    /\ ~w_verdict

\* ------------------------------------------------------------------------
\* C24.  A processing error gets one extra attempt: under a wrapper with
\* max_retries >= 1 the handler lets a ProcessingError be retried at retry
\* count 0 only, so the second invocation that raises one ends the call with
\* that error, the function having been invoked exactly twice.
C24_ProcessingRetriedOnce ==
    [][(w_pc = "caught" /\ Classified(w_err).cls = "ProcessingError" /\ w_max >= 1) =>
          /\ calls = retry_count + 1
          /\ IF retry_count = 0
             THEN w_pc' = "sleep" /\ w_verdict'
             ELSE w_pc' = "raised" /\ ~w_verdict' /\ w_err'.cls = "ProcessingError"]_vars

\* C24 witness: the call has ended with a ProcessingError after two
\* invocations and one sleep.
C24_Witness ==
    /\ w_pc = "raised"
    /\ w_err.cls = "ProcessingError"
    /\ w_max >= 1
    /\ calls = 2
    /\ sleeps = 1
    /\ retry_count = 1

\* ------------------------------------------------------------------------
\* C28.  When the wrapper gives up on an exception of the provider, the error
\* it raises to its caller is the classified one, of one of the handler's
\* categories, never the provider's own exception.
Categories ==
    {"GeoRestrictedError", "AgeRestrictedError", "PrivateVideoError",
     "RateLimitError", "NetworkError", "ProcessingError", "ContentError"}

C28_RaisesClassifiedError ==
    [][(w_pc = "caught" /\ w_err.cls = "YtDlpError" /\ w_pc' = "raised") =>
          /\ w_err'.cls \in Categories
          /\ w_err.msg \subseteq w_err'.msg]_vars

\* C28 witness: a provider exception has been raised to the caller as a
\* PrivateVideoError after the handler refused to retry it.
C28_Witness ==
    /\ w_pc = "raised"
    /\ w_err.cls = "PrivateVideoError"
    /\ calls = 1
    /\ ~w_verdict


\* ------------------------------------------------------------------------
\* C25.  A failure inside the progress callback, while saving a checkpoint or
\* while updating or rendering the progress reporter, does not change the
\* outcome of the download: it is swallowed, and the download is not failed
\* because of it.
C25_HookFailuresSwallowed ==
    d_exc = HookFailure => d_result.status # "FAILED"


\* ------------------------------------------------------------------------
\* C26.  clear_completed_tasks removes from the in-memory index exactly the
\* tasks whose status is COMPLETED, FAILED or CANCELLED: after the call no
\* terminal task remains, every removed task was terminal, and every
\* non-terminal task and the pending queue are as they were.
C26_ClearRemovesExactlyTerminal ==
    [][QClearCompletedTasks =>
          /\ \A t \in Tasks : q_tasks'[t].status \notin Terminal
          /\ \A t \in Tasks :
                q_tasks'[t] = IF q_tasks[t].status \in Terminal THEN NoTask
                              ELSE q_tasks[t]
          /\ q_queue' = q_queue
          /\ q_counter' = q_counter]_vars

\* A cleared queue: one task gone from the index, another still in progress,
\* a third still pending.
C26_Witness ==
    /\ \E t \in 1 .. q_counter : q_tasks[t] = NoTask
    /\ \E t \in 1 .. q_counter : q_tasks[t].status = "IN_PROGRESS"
    /\ \E t \in 1 .. q_counter : q_tasks[t].status = "QUEUED"
    /\ q_queue # <<>>
    /\ \A t \in Tasks : q_tasks[t].status \notin Terminal


\* ------------------------------------------------------------------------
\* C27.  The configured worker count always lies in 1..10: it is
\* max(1, min(count, 10)) of the count the constructor or the last
\* set_parallel_workers call was given, whatever integer that was, nothing
\* else changes it, and every executor created has exactly the worker count
\* configured at that moment.
SetWorkersStep(c) ==
    /\ cs[c].pc = "idle"
    /\ cs'[c].op = "set_parallel_workers"
    /\ cs'[c].pc # "idle"

C27_WorkerCountClamped ==
    [][/\ max_workers \in 1 .. 10
       /\ max_workers' \in 1 .. 10
       /\ \A c \in Callers :
             SetWorkersStep(c) =>
                max_workers' = IF cs'[c].arg < 1 THEN 1
                               ELSE IF cs'[c].arg > 10 THEN 10 ELSE cs'[c].arg
       /\ max_workers' # max_workers => \E c \in Callers : SetWorkersStep(c)
       /\ Len(executors') > Len(executors) =>
             /\ executor' = Len(executors')
             /\ executors'[executor'].max_workers = max_workers']_vars

\* set_parallel_workers(11) on a manager with a running pool of another size
\* has returned: the pool was restarted with 10 workers.
C27_Witness ==
    /\ \E c \in Callers : /\ cs[c].op = "set_parallel_workers"
                          /\ cs[c].arg = 11
                          /\ cs[c].pc = "returned"
    /\ max_workers = 10
    /\ Len(executors) = 2
    /\ executor = 2
    /\ executors[1].max_workers # 10
    /\ executors[2].max_workers = 10


\* ------------------------------------------------------------------------
\* C29.  Every ResumeHandler operation terminates and releases the handler's
\* lock: a thread that holds the lock inside load_resume_state is never left
\* unable to go on, so whenever the lock is held the holder's next step (the
\* clear_resume_state that cleans up an invalid or unreadable record) can be
\* taken and the lock becomes free again.
C29_ResumeOperationsReleaseLock ==
    r_lock # "free" => (d_pc \in ClearSites /\ ENABLED DsClear)


\* ------------------------------------------------------------------------
\* C30.  The aggregate byte counters are always current: after any sequence
\* of start_download, update_download and complete_download calls, the
\* aggregate downloaded_bytes is the sum of downloaded_bytes over all tracked
\* downloads, active and completed, and the aggregate total_bytes is the sum
\* of their total_bytes.
RECURSIVE SumOverUrls(_, _)
SumOverUrls(f, us) ==
    IF us = {} THEN 0
    ELSE LET u == CHOOSE x \in us : TRUE
         IN  f[u] + SumOverUrls(f, us \ {u})

RECURSIVE SumOverSeq(_)
SumOverSeq(s) == IF s = <<>> THEN 0 ELSE Head(s) + SumOverSeq(Tail(s))

TrackedDownloaded ==
    SumOverUrls([u \in Urls |-> p_active[u].downloaded], Urls)
        + SumOverSeq([k \in 1 .. Len(p_completed) |-> p_completed[k].downloaded])

TrackedTotal ==
    SumOverUrls([u \in Urls |-> p_active[u].total], Urls)
        + SumOverSeq([k \in 1 .. Len(p_completed) |-> p_completed[k].total])

C30_AggregateBytesCurrent ==
    /\ p_stats.downloaded_bytes = TrackedDownloaded
    /\ p_stats.total_bytes = TrackedTotal


\* ------------------------------------------------------------------------
\* C31.  Workers obtain their work by dequeuing: a task whose fetch a worker
\* is executing is no longer in the pending queue and has status IN_PROGRESS
\* (the status get_task sets together with started_at), and once a parallel
\* batch has returned the pending queue is empty.
InPendingQueue(t) == \E k \in 1 .. Len(q_queue) : q_queue[k] = t

C31_WorkersDequeue ==
    /\ \A t \in Fetching :
          /\ ~InPendingQueue(t)
          /\ q_tasks[t].status = "IN_PROGRESS"
    /\ \A c \in Callers :
          (cs[c].op = "parallel" /\ cs[c].pc = "returned") => q_queue = <<>>


\* ------------------------------------------------------------------------
\* C32.  Resizing drains before recreating: once set_parallel_workers has
\* shut the old executor down, a new executor is created only after every
\* task submitted to the old one has finished, so no task of the old pool
\* is still executing when the new pool exists and starts work.
C32_ResizeDrainsFirst ==
    [][Len(executors') > Len(executors) =>
          \A e \in 1 .. Len(executors) : executors[e].shut => Drained(e)]_vars


\* ------------------------------------------------------------------------
\* C33.  download_single passes the continue-from-partial hint (continuedl)
\* to the fetcher if and only if resume is enabled and it holds a valid
\* checkpoint of the url whose configuration fingerprint matches: with no
\* checkpoint, or one that was discarded as invalid or mismatching, the
\* fetch starts without the hint.
C33_HintIffApplicableCheckpoint ==
    d_pc = "extract" =>
        (d_continuedl <=> /\ d_cfg.resume
                          /\ d_rs # NoRecord
                          /\ d_rs.hash = ConfigHash(d_cfg))


\* ------------------------------------------------------------------------
\* C34.  classify_yt_dlp_error is total and tests its keyword sets in one fixed
\* priority order -- geo-restriction, age-restriction, private/deleted,
\* rate-limit, network, processing, then generic content: for every message
\* the result is the first category in that order of which a keyword occurs,
\* also when keywords of several categories occur, and the generic content
\* category only when none occurs.
PriorityOrder ==
    <<[cls |-> "GeoRestrictedError", words |-> GeoKeywords],
      [cls |-> "AgeRestrictedError", words |-> AgeKeywords],
      [cls |-> "PrivateVideoError", words |-> PrivateKeywords],
      [cls |-> "RateLimitError", words |-> RateLimitKeywords],
      [cls |-> "NetworkError", words |-> NetworkKeywords],
      [cls |-> "ProcessingError", words |-> ProcessingKeywords]>>

Matching(msg) == {k \in 1 .. Len(PriorityOrder) : msg \cap PriorityOrder[k].words # {}}

FirstCategory(msg) ==
    IF Matching(msg) = {} THEN "ContentError"
    ELSE PriorityOrder[CHOOSE k \in Matching(msg) : \A j \in Matching(msg) : k <= j].cls

C34_ClassifiedByPriority ==
    [][(w_pc = "ready" /\ w_pc' = "classified") =>
          w_err'.cls = FirstCategory(w_err.msg)]_vars

\* A message with a private/deleted, a network and a processing keyword was
\* classified as private/deleted.
C34_Witness ==
    /\ w_pc = "classified"
    /\ {"unavailable", "timeout", "ffmpeg"} \subseteq w_err.msg
    /\ w_err.cls = "PrivateVideoError"


\* ------------------------------------------------------------------------
\* C35.  The aggregate file counters stay consistent after any sequence of
\* start_download, update_download and complete_download calls, a start for
\* a url that is already active and a complete for a url that is not tracked
\* included: total_files = completed_files + failed_files + the number of
\* active downloads, and the active_downloads counter is the number of
\* entries of the active-download map and never negative.
ActiveUrls == {u \in Urls : p_active[u].on}

C35_FileCountersConsistent ==
    /\ p_stats.total_files =
          p_stats.completed_files + p_stats.failed_files + Cardinality(ActiveUrls)
    /\ p_stats.active_downloads = Cardinality(ActiveUrls)
    /\ p_stats.active_downloads >= 0


\* ------------------------------------------------------------------------
\* C36.  Every task added to the queue eventually reaches a terminal status in
\* the queue index, a task whose future was cancelled by cancel_task or by
\* shutdown before it started included; no task stays QUEUED forever.  A
\* task whose future is finished, or cancelled and notified, takes no further
\* step, so by then its status is terminal (or the task was purged as
\* terminal).
Settled == {t \in Tasks : t_pc[t] \in {"done", "skipped"}}

C36_EveryTaskBecomesTerminal ==
    \A t \in Settled : q_tasks[t].status \in Terminal \cup {"none"}


\* ------------------------------------------------------------------------
\* C37.  Every download_single call that returns is counted exactly once in
\* the aggregate: completed_files + failed_files is the number of downloads
\* that have finished, whether a download failed before progress tracking
\* started (during info extraction) or after it, and failed_files is the
\* number of failed results.
C37_EveryDownloadCounted ==
    d_pc = "returned" =>
        /\ p_stats.completed_files + p_stats.failed_files = d_done
        /\ d_result.status = "FAILED" => p_stats.failed_files >= 1


UpdateEmissionsApart ==
    \A i, j \in 1 .. Len(p_display) :
        (i < j /\ p_display[i].by = "update" /\ p_display[j].by = "update") =>
            p_display[j].at - p_display[i].at >= UpdateInterval

InPercentWindow(d, t) ==
    \E k \in 0 .. 20 : 5 * k * t <= 100 * d /\ 100 * d < (5 * k + 1) * t

\* d MiB lies in [10k, 10k + 1) MiB for a whole k
InSizeWindow(d) == \E k \in 0 .. d : 10 * k <= d /\ d < 10 * k + 1

SavesCheckpoint(ev) ==
    /\ ev.t > 0
    /\ ev.d > 0
    /\ InPercentWindow(ev.d, ev.t) \/ InSizeWindow(ev.d)

C39_SavedInWindowsOnly ==
    [][/\ \A ev \in ProgressEvents :
             HookDownloading(ev) =>
                /\ SavesCheckpoint(ev) => d_pc' = "hook_save" /\ d_ev' = ev
                /\ ~SavesCheckpoint(ev) => d_pc' = "download" /\ r_store' = r_store
                /\ ev.t = 0 => d_pc' = "download"
       /\ (d_pc \in {"download", "hook_save"} /\ r_store' # r_store) =>
             /\ d_pc = "hook_save"
             /\ SavesCheckpoint(d_ev)
             /\ r_store' = [r_store EXCEPT
                               ![d_url] = ResumeState(d_url, d_cfg, d_ev.d, d_ev.t)]]_vars

C39_Witness ==
    /\ d_pc = "download"
    /\ d_events = 1
    /\ r_store[d_url] = ResumeState(d_url, d_cfg, 10, 30)

=========================================================================
